---- MODULE Spec2Model ----
(***************************************************************************)
(* A model of the Starfeeder acquisition engine: the serial link           *)
(* (SerialOwner with its reader, writer and controller threads), the       *)
(* writer's delay-aware queue, the reader's line framing, the RFID/mass    *)
(* store, the Whisker task, the listener of the Whisker main socket, the   *)
(* Z-tag decoder, the RFID controller, the balance controller and the      *)
(* window that owns the links.                                             *)
(*                                                                         *)
(* Each component has its own specification (SpecLink, SpecWriter, ...):   *)
(* the variables of the other components stay at their initial values.     *)
(***************************************************************************)
EXTENDS Integers, Sequences, FiniteSets, TLC

VARIABLES
    \* ---- SerialOwner (starfeeder/serial_controller.py) ----
    state,             \* SerialOwner.state (ThreadOwnerState)
    serial_port,       \* SerialOwner.serial_port: "none" | "open" | "closed"
    thread,            \* QThread of reader/writer/controller: "off" | "launching" | "looping"
    quitreq,           \* QThread.quit() has been called on a running thread
    mainq,             \* queued slot calls waiting in the GUI thread's event loop
    objq,              \* queued slot calls waiting for the object living in each thread
    reader_in_loop,    \* SerialReader.start is inside its while loop
    finish_requested,  \* SerialReader.finish_requested
    transitions,       \* history: every (old, new) pair passed through set_state
    errlog,            \* history: kinds of error reported through error()
    nfinished,         \* history: number of SerialOwner.finished emissions
    nstart,            \* number of start() calls made so far
    nstop,             \* number of stop() calls made so far
    startup,           \* history: the steps of the start sequence taken since
                       \* the last start() that was accepted
    \* ---- SerialWriter ----
    queue,             \* SerialWriter.queue: (data, delay_ms) entries
    busy,              \* SerialWriter.busy
    callback_timer,    \* SerialWriter.callback_timer: 0 = idle, else the armed delay
    port_log,          \* history: write attempts on the port, in order
    send_log,          \* history: the (data, delay_ms) passed to send(), in call order
    wait_log,          \* history: each wait(): the entry that asked for it and the
                       \* number of write attempts made before it
    \* ---- SerialReader framing ----
    rx_eol,            \* SerialReader.eol
    residual,          \* SerialReader.residual
    chunks,            \* history: the chunks read from the port, in order
    dispatched,        \* history: the lines emitted through line_received, in order
    \* ---- RFID and mass records (weigh/models.py) ----
    rfid_effective_time_s,  \* MasterConfig.rfid_effective_time_s
    rfid_event,        \* the rows of table rfid_event, in insertion order
    now,               \* the clock that stamps detections and masses
    mass_result,       \* history: what each record_mass_detection returned, with the
                       \* latest detection at the paired reader at that moment
    last_detection,    \* history: the latest detection at each reader
    \* ---- BalanceController (weigh/balance.py) ----
    serial_args,       \* BalanceController.serial_args: baudrate and parity
    measurement_rate_hz,
    read_continuously,
    stability_n,
    tolerance_kg,
    min_mass_kg,
    refload_mass_kg,
    read_until,        \* BalanceController.read_until (the attribute)
    zero_value,        \* {} for None, {v} for the number v
    refload_value,     \* {} for None, {v} for the number v
    command_queue,     \* the commands whose replies are awaited, oldest first
    n_pending_measurements,
    recent_measurements_kg,  \* the window of masses, each an exact quotient
    pending_tare,
    pending_calibrate,
    max_value,
    reset_timer_1,     \* 0 = not armed, else the interval it was started with
    reset_timer_2,
    phase,             \* the last "Balance resetting: phase N" reported (0: none)
    sent,              \* history: the messages passed to SerialController.send
    mass_received,     \* the last handler emitted mass_received
    calibrated,        \* the CalibrationReports the last handler emitted, in order
    masses,            \* history: the last masses judged by process_value since
                       \* reset (as many as the largest stability_n)
    nlines,            \* history: lines the balance has produced for its commands
    last_rx,           \* history: the last such line: whose reply it was, the
                       \* command on_receive took it for, its text and time
    requested,         \* history: ping, tare or calibrate has been called
    nnoise,            \* history: lines received that answer no command
    last_rfid,         \* history: the on_rfid calls for the paired reader: how
                       \* many, and the timestamp of the last one
    \* ---- BaseWindow (starfeeder/gui.py) ----
    owner_state,       \* SerialOwner.state of each link in rfid_list, balance_list
    launching,         \* the link's threads are still being started one by one
    open_failed,       \* history: links whose port failed to open in the last start
    stop_called,       \* history: links stop() was called on since the last start
    status_shown,      \* history: links whose open error on_status has shown
    whisker_owner_state,  \* WhiskerOwner.state of whisker_owner
    exit_pending,      \* BaseWindow.exit_pending
    last_report,       \* history: the last "All tasks and threads stopped"
                       \* status, with the states of the owners when it was
                       \* shown and whether QApplication.quit() followed
    \* ---- WeightWhiskerTask (starfeeder/task.py) ----
    wcm_prefix,        \* WeightWhiskerTask.wcm_prefix
    whisker_connected, \* whisker.is_connected()
    mass_event,        \* the rows of table mass_event, in insertion order
    relay,             \* history: the lines broadcast to the Whisker server
    mass_in,           \* history: the MassEvents handed to on_mass, in order
    \* ---- RfidController (weigh/rfid.py) ----
    swallow_next_stopped_read,
    reset_timer,       \* 0 = not armed, else the interval it was started with
    trace,             \* history: what the controller sent, received, logged as
                       \* an error and emitted, in order
    nreset,            \* history: number of reset() calls made so far
    \* ---- ztag_to_rfid_number (weigh/rfid.py) ----
    ztag,              \* the line handed to ztag_to_rfid_number
    decoded,           \* what it returned, or that it has not run yet
    \* ---- WhiskerMainSocketListener (starfeeder/whisker_qt.py) ----
    server_lines,      \* the lines the Whisker server sends on the main socket
    socket_pos,        \* history: how many of their characters have been read
    listener_residual, \* WhiskerMainSocketListener.residual
    forwarded,         \* history: the lines emitted through line_received
    ping_acks          \* history: number of PingAcknowledged lines sent

linkVars == <<state, serial_port, thread, quitreq, mainq, objq, reader_in_loop,
              finish_requested, transitions, errlog, nfinished, nstart, nstop,
              startup>>
writerVars == <<queue, busy, callback_timer, port_log, send_log, wait_log>>
readerVars == <<rx_eol, residual, chunks, dispatched>>
storeVars == <<rfid_effective_time_s, rfid_event, now, mass_result, last_detection>>
balCfgVars == <<serial_args, measurement_rate_hz, read_continuously, stability_n,
                tolerance_kg, min_mass_kg, refload_mass_kg, read_until>>
balVars == <<balCfgVars, zero_value, refload_value, command_queue,
             n_pending_measurements, recent_measurements_kg, pending_tare,
             pending_calibrate, max_value, reset_timer_1, reset_timer_2, phase,
             sent, mass_received, calibrated, masses, nlines, last_rx,
             requested, nnoise, last_rfid>>
supVars == <<owner_state, launching, open_failed, stop_called, status_shown,
             whisker_owner_state, exit_pending, last_report>>
taskVars == <<wcm_prefix, whisker_connected, mass_event, relay, mass_in>>
rfidVars == <<swallow_next_stopped_read, reset_timer, trace, nreset>>
decoderVars == <<ztag, decoded>>
socketVars == <<server_lines, socket_pos, listener_residual, forwarded, ping_acks>>
restVars == <<readerVars, storeVars, balVars, supVars, taskVars, rfidVars,
              decoderVars, socketVars>>
vars == <<linkVars, writerVars, restVars>>

(***************************************************************************)
(* Bounds of the model.                                                    *)
(***************************************************************************)
MaxStart == 2      \* start() calls per behaviour
MaxStop == 2       \* stop() calls per behaviour
MaxSend == 3       \* send() calls per behaviour (writer specification)
MaxStream == 5     \* bytes read per behaviour (framing specification)
MaxChunk == 3      \* bytes returned by one read
MaxTime == 3       \* last instant of the clock (store specification)
MaxWindow == 1     \* largest rfid_effective_time_s
MaxDetect == 3     \* RFID detections per behaviour
MaxMass == 1       \* mass events per behaviour
MaxExtra == 2      \* messages the balance controller sends besides its reset
MaxRfid == 1       \* on_rfid calls for the paired reader per behaviour
MaxNoise == 1      \* lines received that answer no command, per behaviour
MaxMassIn == 2     \* MassEvents handed to on_mass per behaviour
MaxReset == 2      \* RfidController.reset calls per behaviour
MaxLines == 2      \* lines an RFID reader sends per behaviour
MaxServerLines == 3  \* lines the Whisker server sends per behaviour

Threads == {"reader", "writer", "controller"}
States == {"stopped", "starting", "running", "stopping"}

\* The cycle Stopped -> Starting -> Running -> Stopping -> Stopped.
CycleEdges == {<<"stopped", "starting">>, <<"starting", "running">>,
               <<"running", "stopping">>, <<"stopping", "stopped">>}

(***************************************************************************)
(* SerialWriter                                                            *)
(***************************************************************************)
\* tx_eol of the link under study (BalanceOwner: b";").
tx_eol == ";"

\* The delays a caller may ask for (0 = none).
Delays == {0, 200}
\* The payloads a caller may send.
Payloads == {"A", "B"}

\* SerialWriter._send: one write attempt of data + eol; ok = the write and
\* the flush did not raise.  A failure is logged and the writer continues.
_send(log, data, ok) == Append(log, [bytes |-> data \o tx_eol, ok |-> ok])

\* SerialWriter.process_queue: send entries from the left of the queue until
\* it is empty or an entry asks for a delay; that entry goes back to the
\* front with zero delay and the timer is armed (wait()).
\* oks gives the outcome of each write attempt, in order.
\* The result also tells which entry wait() was called for, if any (waited).
Waited(e, log) == <<[data |-> e.data, delay_ms |-> e.delay_ms, nwritten |-> Len(log)]>>
RECURSIVE process_queue(_, _, _)
Mut_process_queue(q, log, oks) ==
    IF q = <<>>
    THEN [queue |-> <<>>, port_log |-> log, busy |-> FALSE, timer |-> 0,
          waited |-> <<>>]
    ELSE LET e == Head(q) IN
         IF e.delay_ms > 0
         THEN [queue |-> Append(Tail(q), [data |-> e.data, delay_ms |-> 0]),
               port_log |-> log, busy |-> TRUE, timer |-> e.delay_ms,
               waited |-> Waited(e, log)]
         ELSE process_queue(Tail(q), _send(log, e.data, Head(oks)), Tail(oks))
Mut_process_queue_send_first(q, log, oks) ==
    IF q = <<>>
    THEN [queue |-> <<>>, port_log |-> log, busy |-> FALSE, timer |-> 0,
          waited |-> <<>>]
    ELSE LET e == Head(q) IN
         IF e.delay_ms > 0
         THEN [queue |-> Tail(q),
               port_log |-> _send(log, e.data, Head(oks)), busy |-> TRUE,
               timer |-> e.delay_ms,
               waited |-> Waited(e, _send(log, e.data, Head(oks)))]
         ELSE process_queue(Tail(q), _send(log, e.data, Head(oks)), Tail(oks))
Mut_process_queue_forgets(q, log, oks) ==
    IF q = <<>>
    THEN [queue |-> <<>>, port_log |-> log, busy |-> FALSE, timer |-> 0,
          waited |-> <<>>]
    ELSE LET e == Head(q) IN
         IF e.delay_ms > 0
         THEN [queue |-> Tail(q), port_log |-> log, busy |-> TRUE,
               timer |-> e.delay_ms, waited |-> Waited(e, log)]
         ELSE process_queue(Tail(q), _send(log, e.data, Head(oks)), Tail(oks))
process_queue(q, log, oks) ==
    IF q = <<>>
    THEN [queue |-> <<>>, port_log |-> log, busy |-> FALSE, timer |-> 0,
          waited |-> <<>>]
    ELSE LET e == Head(q) IN
         IF e.delay_ms > 0
         THEN [queue |-> <<[data |-> e.data, delay_ms |-> 0]>> \o Tail(q),
               port_log |-> log, busy |-> TRUE, timer |-> e.delay_ms,
               waited |-> Waited(e, log)]
         ELSE process_queue(Tail(q), _send(log, e.data, Head(oks)), Tail(oks))

\* SerialWriter.send(data, delay_ms): append, and process the queue at once
\* unless a delay is in progress.
send(data, delay_ms, oks) ==
    LET q1 == Append(queue, [data |-> data, delay_ms |-> delay_ms]) IN
    /\ send_log' = Append(send_log, [data |-> data, delay_ms |-> delay_ms])
    /\ IF ~busy
       THEN LET r == process_queue(q1, port_log, oks) IN
            /\ queue' = r.queue
            /\ port_log' = r.port_log
            /\ busy' = r.busy
            /\ callback_timer' = r.timer
            /\ wait_log' = wait_log \o r.waited
       ELSE /\ queue' = q1
            /\ UNCHANGED <<port_log, busy, callback_timer, wait_log>>

\* callback_timer.timeout -> process_queue (single shot).
timer_timeout(oks) ==
    /\ callback_timer > 0
    /\ LET r == process_queue(queue, port_log, oks) IN
       /\ queue' = r.queue
       /\ port_log' = r.port_log
       /\ busy' = r.busy
       /\ callback_timer' = r.timer
       /\ wait_log' = wait_log \o r.waited
    /\ UNCHANGED send_log

Outcomes(n) == [1..n -> BOOLEAN]

InitWriter ==
    /\ queue = <<>>
    /\ busy = FALSE
    /\ callback_timer = 0
    /\ port_log = <<>>
    /\ send_log = <<>>
    /\ wait_log = <<>>

\* The controller's data_send_requested(data, delay_ms) reaching the writer.
WriterSend ==
    /\ Len(send_log) < MaxSend
    /\ \E data \in Payloads, d \in Delays, oks \in Outcomes(Len(queue) + 1) :
          send(data, d, oks)
    /\ UNCHANGED <<linkVars, restVars>>

WriterTimer ==
    /\ \E oks \in Outcomes(Len(queue)) : timer_timeout(oks)
    /\ UNCHANGED <<linkVars, restVars>>

(***************************************************************************)
(* SerialOwner                                                             *)
(***************************************************************************)
\* check_everything_finished, lines 529-532: no thread isRunning().
Mut_AllThreadsFinished(th) == th["reader"] = "off" /\ th["controller"] = "off"
AllThreadsFinished(th) == \A t \in Threads : th[t] = "off"

\* serial_port.close() if there is a port object (lines 534-536).
ClosePort(p) == IF p = "none" THEN "none" ELSE "closed"

\* check_everything_finished() called with the owner in state cur and the
\* set_state history tr.
check_everything_finished(cur, tr) ==
    IF AllThreadsFinished(thread)
    THEN /\ serial_port' = ClosePort(serial_port)
         /\ state' = "stopped"
         /\ transitions' = tr \cup {<<cur, "stopped">>}
         /\ nfinished' = nfinished + 1
    ELSE /\ state' = cur
         /\ transitions' = tr
         /\ UNCHANGED <<serial_port, nfinished>>

\* The body of stop() once the state is known not to be stopped.
stop_accepted(cur, tr) ==
    /\ check_everything_finished("stopping", tr \cup {<<cur, "stopping">>})
    /\ objq' = IF AllThreadsFinished(thread)
               THEN objq
               ELSE [objq EXCEPT !["controller"] = Append(@, "stop")]

\* QThread.start(): nothing if the thread is running already.
QThreadStart(th, t) == IF th[t] = "off" THEN [th EXCEPT ![t] = "launching"] ELSE th
\* QThread.quit(): the event loop of a running thread is told to exit.
QThreadQuit(qr, t) == IF thread[t] = "off" THEN qr ELSE [qr EXCEPT ![t] = TRUE]

InitLink ==
    /\ state = "stopped"
    /\ serial_port = "none"
    /\ thread = [t \in Threads |-> "off"]
    /\ quitreq = [t \in Threads |-> FALSE]
    /\ mainq = <<>>
    /\ objq = [t \in Threads |-> <<>>]
    /\ reader_in_loop = FALSE
    /\ finish_requested = FALSE
    /\ transitions = {}
    /\ errlog = {}
    /\ nfinished = 0
    /\ nstart = 0
    /\ nstop = 0
    /\ startup = {}

\* start() refuses to act unless the owner is stopped (lines 455-458).
Mut_start_refused(st) == st = "running"
start_refused(st) == st # "stopped"

\* SerialOwner.start(), called in the GUI thread.
start ==
    /\ nstart < MaxStart
    /\ nstart' = nstart + 1
    /\ IF start_refused(state)
       THEN /\ errlog' = errlog \cup {"cannot_start"}
            /\ UNCHANGED <<state, serial_port, thread, objq, transitions, nfinished,
                           startup>>
       ELSE \E opened \in BOOLEAN :
              IF opened
              THEN /\ state' = "starting"
                   /\ transitions' = transitions \cup {<<state, "starting">>}
                   /\ serial_port' = "open"
                   /\ thread' = QThreadStart(thread, "writer")
                   /\ startup' = {"writerthread.start"}
                   /\ UNCHANGED <<errlog, objq, nfinished>>
              ELSE /\ errlog' = errlog \cup {"open"}
                   /\ stop_accepted("starting",
                                    transitions \cup {<<state, "starting">>})
                   /\ startup' = {}
                   /\ UNCHANGED thread
    /\ UNCHANGED <<quitreq, mainq, reader_in_loop, finish_requested, nstop>>
    /\ UNCHANGED <<writerVars, restVars>>

\* SerialOwner.stop(), called in the GUI thread.
stop ==
    /\ nstop < MaxStop
    /\ nstop' = nstop + 1
    /\ IF state = "stopped"
       THEN /\ errlog' = errlog \cup {"cannot_stop"}
            /\ UNCHANGED <<state, serial_port, objq, transitions, nfinished>>
       ELSE /\ stop_accepted(state, transitions)
            /\ UNCHANGED errlog
    /\ UNCHANGED <<thread, quitreq, mainq, reader_in_loop, finish_requested, nstart, startup>>
    /\ UNCHANGED <<writerVars, restVars>>

\* The new thread begins to run: QThread.started is emitted (queued to the
\* owner, which lives in the GUI thread) and the event loop is entered.
ThreadBegin(t) ==
    /\ thread[t] = "launching"
    /\ thread' = [thread EXCEPT ![t] = "looping"]
    /\ mainq' = Append(mainq, t \o "thread_started")
    /\ UNCHANGED <<state, serial_port, quitreq, objq, reader_in_loop,
                   finish_requested, transitions, errlog, nfinished, nstart, nstop, startup>>
    /\ UNCHANGED <<writerVars, restVars>>

\* What QThread.finished of thread t is connected to, in connection order
\* (lines 408-410, 414, 416).
FinishedSlots(t) ==
    IF t = "controller"
    THEN <<"controllerthread_finished", "reader_stop_requested", "writer_stop_requested">>
    ELSE <<t \o "thread_finished">>

\* The event loop of a thread exits after quit(); QThread.finished is emitted.
ThreadExit(t) ==
    /\ thread[t] = "looping"
    /\ quitreq[t]
    /\ t = "reader" => ~reader_in_loop
    /\ thread' = [thread EXCEPT ![t] = "off"]
    /\ quitreq' = [quitreq EXCEPT ![t] = FALSE]
    /\ mainq' = mainq \o FinishedSlots(t)
    /\ UNCHANGED <<state, serial_port, objq, reader_in_loop, finish_requested,
                   transitions, errlog, nfinished, nstart, nstop, startup>>
    /\ UNCHANGED <<writerVars, restVars>>

\* The head of the GUI thread's event queue is ev; it is taken off.
MainTakes(ev) == mainq # <<>> /\ Head(mainq) = ev

writerthread_started ==
    /\ MainTakes("writerthread_started")
    /\ mainq' = Tail(mainq)
    /\ objq' = [objq EXCEPT !["writer"] = Append(@, "start")]
    /\ UNCHANGED <<state, serial_port, thread, quitreq, reader_in_loop,
                   finish_requested, transitions, errlog, nfinished, nstart, nstop, startup>>
    /\ UNCHANGED <<writerVars, restVars>>

writer_started ==
    /\ MainTakes("writer_started")
    /\ mainq' = Tail(mainq)
    /\ thread' = QThreadStart(thread, "reader")
    /\ startup' = startup \cup {"writer.started", "readerthread.start"}
    /\ UNCHANGED <<state, serial_port, quitreq, objq, reader_in_loop,
                   finish_requested, transitions, errlog, nfinished, nstart, nstop>>
    /\ UNCHANGED <<writerVars, restVars>>

\* readerthread_started asks the reader to start and then starts the
\* controller thread; Mut_readerthread_started is the variant that starts
\* the controller thread only.
Mut_readerthread_started ==
    /\ MainTakes("readerthread_started")
    /\ mainq' = Tail(mainq)
    /\ thread' = QThreadStart(thread, "controller")
    /\ startup' = startup \cup {"controllerthread.start"}
    /\ UNCHANGED <<state, serial_port, quitreq, objq, reader_in_loop,
                   finish_requested, transitions, errlog, nfinished, nstart, nstop>>
    /\ UNCHANGED <<writerVars, restVars>>
readerthread_started ==
    /\ MainTakes("readerthread_started")
    /\ mainq' = Tail(mainq)
    /\ objq' = [objq EXCEPT !["reader"] = Append(@, "start")]
    /\ thread' = QThreadStart(thread, "controller")
    /\ startup' = startup \cup {"reader_start_requested", "controllerthread.start"}
    /\ UNCHANGED <<state, serial_port, quitreq, reader_in_loop,
                   finish_requested, transitions, errlog, nfinished, nstart, nstop>>
    /\ UNCHANGED <<writerVars, restVars>>

controllerthread_started ==
    /\ MainTakes("controllerthread_started")
    /\ mainq' = Tail(mainq)
    /\ state' = "running"
    /\ transitions' = transitions \cup {<<state, "running">>}
    /\ objq' = [objq EXCEPT !["controller"] = Append(@, "on_start")]
    /\ startup' = startup \cup {"running"}
    /\ UNCHANGED <<serial_port, thread, quitreq, reader_in_loop,
                   finish_requested, errlog, nfinished, nstart, nstop>>
    /\ UNCHANGED <<writerVars, restVars>>

\* controller.finished -> controllerthread.quit and
\* reader.finished -> readerthread.quit (lines 407, 413), and
\* writer_stop_requested -> writerthread.quit (line 415).
thread_quit(ev, t) ==
    /\ MainTakes(ev)
    /\ mainq' = Tail(mainq)
    /\ quitreq' = QThreadQuit(quitreq, t)
    /\ UNCHANGED <<state, serial_port, thread, objq, reader_in_loop,
                   finish_requested, transitions, errlog, nfinished, nstart, nstop, startup>>
    /\ UNCHANGED <<writerVars, restVars>>

\* reader_stop_requested -> reader.stop over a direct connection: the flag is
\* set from the GUI thread.
reader_stop ==
    /\ MainTakes("reader_stop_requested")
    /\ mainq' = Tail(mainq)
    /\ finish_requested' = TRUE
    /\ UNCHANGED <<state, serial_port, thread, quitreq, objq, reader_in_loop,
                   transitions, errlog, nfinished, nstart, nstop, startup>>
    /\ UNCHANGED <<writerVars, restVars>>

\* readerthread_finished, writerthread_finished, controllerthread_finished.
thread_finished(t) ==
    /\ MainTakes(t \o "thread_finished")
    /\ mainq' = Tail(mainq)
    /\ check_everything_finished(state, transitions)
    /\ UNCHANGED <<thread, quitreq, objq, reader_in_loop, finish_requested,
                   errlog, nstart, nstop, startup>>
    /\ UNCHANGED <<writerVars, restVars>>

\* The object living in thread t takes the queued call ev.
ObjTakes(t, ev) ==
    /\ thread[t] = "looping"
    /\ t = "reader" => ~reader_in_loop
    /\ objq[t] # <<>>
    /\ Head(objq[t]) = ev

\* SerialWriter.start
writer_start ==
    /\ ObjTakes("writer", "start")
    /\ objq' = [objq EXCEPT !["writer"] = Tail(@)]
    /\ mainq' = Append(mainq, "writer_started")
    /\ UNCHANGED <<state, serial_port, thread, quitreq, reader_in_loop,
                   finish_requested, transitions, errlog, nfinished, nstart, nstop, startup>>
    /\ UNCHANGED <<writerVars, restVars>>

\* SerialWriter.send reached through data_send_requested; a failed write is
\* reported through error() and the writer carries on.
writer_send ==
    /\ ObjTakes("writer", "send")
    /\ objq' = [objq EXCEPT !["writer"] = Tail(@)]
    /\ \E oks \in Outcomes(Len(queue) + 1) :
          /\ send("A", 0, oks)
          /\ errlog' = IF \E i \in DOMAIN oks : ~oks[i]
                       THEN errlog \cup {"write"} ELSE errlog
    /\ UNCHANGED <<state, serial_port, thread, quitreq, mainq, reader_in_loop,
                   finish_requested, transitions, nfinished, nstart, nstop, startup>>
    /\ UNCHANGED restVars

\* SerialReader.start up to the loop: the flag is reset (line 82), whatever
\* stop() has set it to; Mut_reader_start_flag is the variant that keeps it.
Mut_reader_start_flag == finish_requested
reader_start_flag == FALSE

reader_start ==
    /\ ObjTakes("reader", "start")
    /\ objq' = [objq EXCEPT !["reader"] = Tail(@)]
    /\ finish_requested' = reader_start_flag
    /\ reader_in_loop' = TRUE
    /\ UNCHANGED <<state, serial_port, thread, quitreq, mainq,
                   transitions, errlog, nfinished, nstart, nstop, startup>>
    /\ UNCHANGED <<writerVars, restVars>>

\* The loop sees finish_requested and ends: finish() emits finished, which
\* is connected to readerthread.quit.
reader_loop_exit ==
    /\ reader_in_loop
    /\ finish_requested
    /\ reader_in_loop' = FALSE
    /\ mainq' = Append(mainq, "reader_quit")
    /\ UNCHANGED <<state, serial_port, thread, quitreq, objq, finish_requested,
                   transitions, errlog, nfinished, nstart, nstop, startup>>
    /\ UNCHANGED <<writerVars, restVars>>

\* A read raises inside the loop: the error is reported, the loop ends and
\* finish() is called.
reader_read_error ==
    /\ reader_in_loop
    /\ ~finish_requested
    /\ errlog' = errlog \cup {"read"}
    /\ reader_in_loop' = FALSE
    /\ mainq' = Append(mainq, "reader_quit")
    /\ UNCHANGED <<state, serial_port, thread, quitreq, objq, finish_requested,
                   transitions, nfinished, nstart, nstop, startup>>
    /\ UNCHANGED <<writerVars, restVars>>

\* SerialController.stop: emits finished.
controller_stop ==
    /\ ObjTakes("controller", "stop")
    /\ objq' = [objq EXCEPT !["controller"] = Tail(@)]
    /\ mainq' = Append(mainq, "controller_quit")
    /\ UNCHANGED <<state, serial_port, thread, quitreq, reader_in_loop,
                   finish_requested, transitions, errlog, nfinished, nstart, nstop, startup>>
    /\ UNCHANGED <<writerVars, restVars>>

\* SerialController.on_start as its subclasses use it: a command is sent
\* (send() emits data_send_requested, queued to the writer).
controller_on_start ==
    /\ ObjTakes("controller", "on_start")
    /\ objq' = [objq EXCEPT !["controller"] = Tail(@),
                            !["writer"] = Append(@, "send")]
    /\ startup' = startup \cup {"on_start"}
    /\ UNCHANGED <<state, serial_port, thread, quitreq, mainq, reader_in_loop,
                   finish_requested, transitions, errlog, nfinished, nstart, nstop>>
    /\ UNCHANGED <<writerVars, restVars>>

\* The steps the GUI thread's event loop takes.
MainStep ==
    \/ writerthread_started
    \/ writer_started
    \/ readerthread_started
    \/ controllerthread_started
    \/ thread_quit("controller_quit", "controller")
    \/ thread_quit("reader_quit", "reader")
    \/ thread_quit("writer_stop_requested", "writer")
    \/ reader_stop
    \/ \E t \in Threads : thread_finished(t)

\* The steps the three threads of the link take.
ThreadStep ==
    \/ \E t \in Threads : ThreadBegin(t)
    \/ \E t \in Threads : ThreadExit(t)
    \/ writer_start
    \/ writer_send
    \/ reader_start
    \/ reader_loop_exit
    \/ controller_stop
    \/ controller_on_start

(***************************************************************************)
(* SerialReader: framing                                                   *)
(***************************************************************************)
CR == "\r"
LF == "\n"
CRLF == <<CR, LF>>
\* The bytes a port may deliver.
Bytes == {"a", CR, LF}

StartsWith(s, p) == Len(s) >= Len(p) /\ SubSeq(s, 1, Len(p)) = p

\* bytes.split(sep): the fragments between the occurrences of sep, found
\* from the left; cur is the fragment being collected.
RECURSIVE split(_, _, _)
split(data, sep, cur) ==
    IF data = <<>> THEN <<cur>>
    ELSE IF StartsWith(data, sep)
         THEN <<cur>> \o split(SubSeq(data, Len(sep) + 1, Len(data)), sep, <<>>)
         ELSE split(Tail(data), sep, Append(cur, Head(data)))

\* SerialReader.process_data: the residual is put before the new data, every
\* fragment but the last is a line, the last is the new residual.
Mut_process_data(res, data, eol) ==
    LET fragments == split(data, eol, <<>>) IN
    [lines |-> SubSeq(fragments, 1, Len(fragments) - 1),
     residual |-> fragments[Len(fragments)]]
process_data(res, data, eol) ==
    LET fragments == split(res \o data, eol, <<>>) IN
    [lines |-> SubSeq(fragments, 1, Len(fragments) - 1),
     residual |-> fragments[Len(fragments)]]

\* The chunks of at most n bytes.
RECURSIVE ChunksUpTo(_)
ChunksUpTo(n) ==
    IF n = 0 THEN {<<>>}
    ELSE ChunksUpTo(n - 1) \cup
         {Append(c, b) : c \in {x \in ChunksUpTo(n - 1) : Len(x) = n - 1}, b \in Bytes}

RECURSIVE Flatten(_)
Flatten(ss) == IF ss = <<>> THEN <<>> ELSE Head(ss) \o Flatten(Tail(ss))

InitReader ==
    /\ rx_eol \in {<<LF>>, CRLF}    \* RfidOwner / BalanceOwner
    /\ residual = <<>>
    /\ chunks = <<>>
    /\ dispatched = <<>>

\* One pass of the reader's loop that got data: read(1) plus what was waiting.
ReaderRead ==
    /\ \E data \in ChunksUpTo(MaxChunk) :
          /\ data # <<>>
          /\ Len(Flatten(chunks)) + Len(data) <= MaxStream
          /\ LET r == process_data(residual, data, rx_eol) IN
             /\ residual' = r.residual
             /\ dispatched' = dispatched \o r.lines
          /\ chunks' = Append(chunks, data)
    /\ UNCHANGED rx_eol
    /\ UNCHANGED <<linkVars, writerVars, storeVars, balVars, supVars,
                 taskVars, rfidVars, decoderVars, socketVars>>


(***************************************************************************)
(* RFID and mass records (weigh/models.py)                                 *)
(***************************************************************************)
Readers == {"R1", "R2"}
Tags == {"T1", "T2"}
\* The reader the balance under study is paired with (balance.reader.id).
PairedReader == "R1"
None == "None"

\* The same filter with a window that excludes its far end.
Mut_get_ongoing_event_strictly_within(reader_id, rfid, t) ==
    {i \in DOMAIN rfid_event :
        /\ rfid_event[i].reader_id = reader_id
        /\ rfid_event[i].rfid = rfid
        /\ rfid_event[i].last_detected_at > t - rfid_effective_time_s}

\* The same filter without the tag: any ongoing row of the reader.
Mut_get_ongoing_event_by_reader_rfid(reader_id, rfid, t) ==
    {i \in DOMAIN rfid_event :
        /\ rfid_event[i].reader_id = reader_id
        /\ rfid_event[i].last_detected_at >= t - rfid_effective_time_s}

\* RfidEvent.get_ongoing_event_by_reader_rfid: the rows the filter keeps
\* (their indices); first() returns one of them.
get_ongoing_event_by_reader_rfid(reader_id, rfid, t) ==
    {i \in DOMAIN rfid_event :
        /\ rfid_event[i].reader_id = reader_id
        /\ rfid_event[i].rfid = rfid
        /\ rfid_event[i].last_detected_at >= t - rfid_effective_time_s}

\* RfidEvent.get_ongoing_event_at_reader: the rows the filter keeps.
get_ongoing_event_at_reader(reader_id, t) ==
    {i \in DOMAIN rfid_event :
        /\ rfid_event[i].reader_id = reader_id
        /\ rfid_event[i].last_detected_at >= t - rfid_effective_time_s}

InitStore ==
    /\ rfid_effective_time_s \in 1..MaxWindow
    /\ rfid_event = <<>>
    /\ now = 0
    /\ mass_result = <<>>
    /\ last_detection = [r \in Readers |-> [rfid |-> None, timestamp |-> 0]]

Tick ==
    /\ now < MaxTime
    /\ now' = now + 1
    /\ UNCHANGED <<rfid_effective_time_s, rfid_event, mass_result, last_detection>>
    /\ UNCHANGED <<linkVars, writerVars, readerVars, balVars, supVars,
                 taskVars, rfidVars, decoderVars, socketVars>>

\* The detections recorded so far.
RECURSIVE SumEvents(_)
SumEvents(rows) == IF rows = <<>> THEN 0 ELSE Head(rows).n_events + SumEvents(Tail(rows))

\* RfidEvent.record_rfid_detection for a detection stamped now.
record_rfid_detection ==
    /\ SumEvents(rfid_event) < MaxDetect
    /\ \E reader_id \in Readers, rfid \in Tags :
          LET ongoing == get_ongoing_event_by_reader_rfid(reader_id, rfid, now) IN
          /\ IF ongoing # {}
             THEN \E i \in ongoing :
                    rfid_event' = [rfid_event EXCEPT
                                      ![i].last_detected_at = now,
                                      ![i].n_events = @ + 1]
             ELSE rfid_event' = Append(rfid_event,
                                       [reader_id |-> reader_id, rfid |-> rfid,
                                        first_detected_at |-> now,
                                        last_detected_at |-> now,
                                        n_events |-> 1])
          /\ last_detection' = [last_detection EXCEPT
                                   ![reader_id] = [rfid |-> rfid, timestamp |-> now]]
    /\ UNCHANGED <<rfid_effective_time_s, now, mass_result>>
    /\ UNCHANGED <<linkVars, writerVars, readerVars, balVars, supVars,
                 taskVars, rfidVars, decoderVars, socketVars>>

\* MassIdentifiedEvent.record_mass_detection for a mass stamped now, from the
\* balance paired with PairedReader: the tag of the row first() returns (the
\* query has no ORDER BY: any row the filter keeps), or None.
record_mass_detection ==
    /\ Len(mass_result) < MaxMass
    /\ LET ongoing == get_ongoing_event_at_reader(PairedReader, now) IN
       IF ongoing = {}
       THEN mass_result' = Append(mass_result,
                                  [at |-> now, rfid |-> None,
                                   latest |-> last_detection[PairedReader]])
       ELSE \E i \in ongoing :
              mass_result' = Append(mass_result,
                                    [at |-> now, rfid |-> rfid_event[i].rfid,
                                     latest |-> last_detection[PairedReader]])
    /\ UNCHANGED <<rfid_effective_time_s, rfid_event, now, last_detection>>
    /\ UNCHANGED <<linkVars, writerVars, readerVars, balVars, supVars,
                 taskVars, rfidVars, decoderVars, socketVars>>


(***************************************************************************)
(* WeightWhiskerTask (starfeeder/task.py)                                  *)
(***************************************************************************)
Prefixes == {"", "sf_"}

\* The MassEvents a balance may hand over at time t: a locked event is a
\* stable one.
MassEvents(t) ==
    {e \in [balance_id : {"B1"}, balance_name : {"balance1"},
            reader_id : {PairedReader}, reader_name : {"reader1"},
            rfid : Tags \cup {None}, mass_kg : {1}, timestamp : {t},
            stable : BOOLEAN, locked : BOOLEAN] : e.locked => e.stable}

InitTask ==
    /\ wcm_prefix \in Prefixes
    /\ whisker_connected = FALSE
    /\ mass_event = <<>>
    /\ relay = <<>>
    /\ mass_in = <<>>

\* The immediate socket to the Whisker server connects or drops.
whisker_socket_changes ==
    /\ whisker_connected' = ~whisker_connected
    /\ UNCHANGED <<wcm_prefix, mass_event, relay, mass_in>>
    /\ UNCHANGED <<linkVars, writerVars, readerVars, storeVars, balVars, supVars,
                   rfidVars, decoderVars, socketVars>>

\* MassEventRecord.record_mass_detection: the table with the new row.
MassEventRecord_record_mass_detection(rows, mass_single_event) ==
    Append(rows, [rfid |-> mass_single_event.rfid,
                  reader_id |-> mass_single_event.reader_id,
                  balance_id |-> mass_single_event.balance_id,
                  at |-> mass_single_event.timestamp,
                  mass_kg |-> mass_single_event.mass_kg])

\* WeightWhiskerTask.broadcast: the relay output with the line added.
broadcast(out, msg) == Append(out, [msg EXCEPT !.prefix = wcm_prefix])

\* The line on_mass formats (lines 110-117).
MassEventLine(e) ==
    [prefix |-> "", kind |-> "MASS_EVENT", reader |-> e.reader_name,
     rfid |-> e.rfid, balance |-> e.balance_name, mass_kg |-> e.mass_kg,
     timestamp |-> e.timestamp]

\* WeightWhiskerTask.on_mass
Mut_on_mass(mass_event_in) ==
    /\ Len(mass_in) < MaxMassIn
    /\ mass_in' = Append(mass_in, mass_event_in)
    /\ mass_event' = MassEventRecord_record_mass_detection(mass_event, mass_event_in)
    /\ relay' = IF whisker_connected
                THEN broadcast(relay, MassEventLine(mass_event_in))
                ELSE relay
    /\ UNCHANGED <<wcm_prefix, whisker_connected>>
    /\ UNCHANGED <<linkVars, writerVars, readerVars, storeVars, balVars, supVars,
                   rfidVars, decoderVars, socketVars>>
on_mass(mass_event_in) ==
    /\ Len(mass_in) < MaxMassIn
    /\ mass_in' = Append(mass_in, mass_event_in)
    /\ IF ~mass_event_in.locked \/ mass_event_in.rfid = None
       THEN UNCHANGED <<mass_event, relay>>
       ELSE /\ mass_event' =
                  MassEventRecord_record_mass_detection(mass_event, mass_event_in)
            /\ relay' = IF whisker_connected
                        THEN broadcast(relay, MassEventLine(mass_event_in))
                        ELSE relay
    /\ UNCHANGED <<wcm_prefix, whisker_connected>>
    /\ UNCHANGED <<linkVars, writerVars, readerVars, storeVars, balVars, supVars,
                   rfidVars, decoderVars, socketVars>>

(***************************************************************************)
(* ztag_to_rfid_number (weigh/rfid.py)                                     *)
(*                                                                         *)
(* A line is the sequence of its characters.  A tag number does not fit    *)
(* the checker's 32-bit integers: a number is kept as its limbs in base    *)
(* 1000000, least significant first, without high zero limbs (0 is <<>>).  *)
(***************************************************************************)
UpperHex == <<"0", "1", "2", "3", "4", "5", "6", "7", "8", "9",
              "A", "B", "C", "D", "E", "F">>
LowerHex == <<"0", "1", "2", "3", "4", "5", "6", "7", "8", "9",
              "a", "b", "c", "d", "e", "f">>

\* The characters bitstring accepts in a hex initialiser, and their values.
IsHex(c) == \E v \in 0..15 : UpperHex[v + 1] = c \/ LowerHex[v + 1] = c
HexValue(c) == CHOOSE v \in 0..15 : UpperHex[v + 1] = c \/ LowerHex[v + 1] = c

\* bitstring.BitStream(hex=hexcode): four bits a character, the most
\* significant first.
RECURSIVE BitStream(_)
BitStream(hexcode) ==
    IF hexcode = <<>> THEN <<>>
    ELSE LET v == HexValue(Head(hexcode)) IN
         <<v \div 8, (v \div 4) % 2, (v \div 2) % 2, v % 2>>
            \o BitStream(Tail(hexcode))

\* Bits.reverse()
Mut_Reverse(bits) == bits
Reverse(bits) == [i \in 1..Len(bits) |-> bits[Len(bits) + 1 - i]]

\* m * n + c for a number n, a small factor m and a small c.
RECURSIVE MulAdd(_, _, _)
MulAdd(n, m, c) ==
    IF n = <<>> THEN (IF c = 0 THEN <<>> ELSE <<c>>)
    ELSE LET v == m * Head(n) + c IN
         <<v % 1000000>> \o MulAdd(Tail(n), m, v \div 1000000)

\* Bits.uint: the bits read as an unsigned number, the first bit the most
\* significant.
RECURSIVE uint(_)
uint(bits) ==
    IF bits = <<>> THEN <<>>
    ELSE MulAdd(uint(SubSeq(bits, 1, Len(bits) - 1)), 2, bits[Len(bits)])

\* The decimal digits of k < 1000000, padded with zeros to width places.
RECURSIVE LimbDigits(_, _)
LimbDigits(k, width) ==
    IF width = 0 THEN <<>>
    ELSE Append(LimbDigits(k \div 10, width - 1), UpperHex[(k % 10) + 1])

\* The string without its leading "0" characters ("0" left if nothing else).
RECURSIVE StripZeros(_)
StripZeros(s) ==
    IF Len(s) > 1 /\ Head(s) = "0" THEN StripZeros(Tail(s)) ELSE s

\* str(n) for a number n.
RECURSIVE AllDigits(_)
AllDigits(n) ==
    IF n = <<>> THEN <<>> ELSE AllDigits(Tail(n)) \o LimbDigits(Head(n), 6)
big_str(n) == IF n = <<>> THEN <<"0">> ELSE StripZeros(AllDigits(n))

\* str.zfill(width)
Mut_zfill(s, width) == s
zfill(s, width) ==
    IF Len(s) >= width THEN s
    ELSE [i \in 1..(width - Len(s)) |-> "0"] \o s

\* int(s) for a string s of decimal digits.
RECURSIVE big_int(_)
big_int(s) ==
    IF s = <<>> THEN <<>>
    ELSE MulAdd(big_int(SubSeq(s, 1, Len(s) - 1)), 10,
                CHOOSE v \in 0..9 : UpperHex[v + 1] = s[Len(s)])

\* ztag_to_rfid_number: "None" for None, "value" with the number, or
\* "raise" where bitstring refuses the hex initialiser (CreationError).
ztag_to_rfid_number(z) ==
    IF Len(z) # 17 \/ z[1] # "Z"
    THEN [kind |-> "None", value |-> <<>>]
    ELSE LET hexcode == Tail(z) IN
         IF \E i \in DOMAIN hexcode : ~IsHex(hexcode[i])
         THEN [kind |-> "raise", value |-> <<>>]
         ELSE LET bits == BitStream(hexcode)
                  national_id_bits == SubSeq(bits, 1, 38)
                  country_bits == SubSeq(bits, 39, 48)
                  national_id == uint(Reverse(national_id_bits))
                  country == uint(Reverse(country_bits))
                  rfid_string == big_str(country) \o zfill(big_str(national_id), 12)
              IN [kind |-> "value", value |-> big_int(rfid_string)]

\* The number n halved (high zero limbs may stay), and the first places bits
\* of n from the least significant.
Halve(n) ==
    [i \in 1..Len(n) |->
        (n[i] + (IF i < Len(n) THEN (n[i + 1] % 2) * 1000000 ELSE 0)) \div 2]
RECURSIVE LsbFirst(_, _)
LsbFirst(n, places) ==
    IF places = 0 THEN <<>>
    ELSE <<IF n = <<>> THEN 0 ELSE Head(n) % 2>> \o LsbFirst(Halve(n), places - 1)

\* The hex characters of a sequence of bits (a multiple of four).
RECURSIVE HexOf(_)
HexOf(bits) ==
    IF bits = <<>> THEN <<>>
    ELSE <<UpperHex[8 * bits[1] + 4 * bits[2] + 2 * bits[3] + bits[4] + 1]>>
            \o HexOf(SubSeq(bits, 5, Len(bits)))

\* The Z-tag of a transponder: 38 bits of national id and 10 bits of country
\* code, each least significant bit first, the additional-data flag, 14 bits
\* of padding and the animal flag.
ZtagOf(country, national_id, has_additional_data, is_animal_id) ==
    <<"Z">> \o HexOf(LsbFirst(national_id, 38) \o LsbFirst(<<country>>, 10)
                     \o <<has_additional_data>> \o [i \in 1..14 |-> 0]
                     \o <<is_animal_id>>)

\* country * 10^12 + national_id
TagNumber(country, national_id) ==
    LET n == [i \in 1..3 |-> IF i = 3 THEN country
                             ELSE IF i <= Len(national_id) THEN national_id[i]
                             ELSE 0]
        top == IF country # 0 THEN 3
               ELSE IF n[2] # 0 THEN 2 ELSE IF n[1] # 0 THEN 1 ELSE 0
    IN SubSeq(n, 1, top)

\* The transponders tried: country codes of 1 to 4 digits, national ids of
\* 1 to 12 digits up to 2^38 - 1 = 274877906943.
Countries == {0, 1, 208, 826, 900, 999, 1023}
NationalIds == {<<>>, <<1>>, <<1060>>, <<999999>>, <<0, 1>>, <<479322, 210000>>,
                <<71672, 46000>>, <<999999, 99999>>, <<0, 100000>>,
                <<906943, 274877>>}
Transponders ==
    {[country |-> c, national_id |-> n,
      ztag |-> ZtagOf(c, n, a, b)] :
        c \in Countries, n \in NationalIds, a \in {0, 1}, b \in {0, 1}}

\* The first example of the source (line 43), and lines that are no Z-tag:
\* too short, too long, a wrong prefix, characters that are no hex digits.
ExampleZtag == <<"Z", "5", "A", "2", "0", "8", "0", "A", "7", "0", "C", "2", "C",
                 "0", "0", "0", "1">>
LowerCaseZtag == <<"Z", "5", "a", "2", "0", "8", "0", "a", "7", "0", "c", "2", "c",
                   "0", "0", "0", "1">>
ShortLine == SubSeq(ExampleZtag, 1, 16)
LongLine == ExampleZtag \o <<"0">>
WrongPrefix == <<"Y">> \o Tail(ExampleZtag)
NotHex == <<"Z", "5", "A", "2", "0", "8", "0", "A", "7", "0", "C", "2", "C",
            "0", "0", "0", "G">>
NoZtags == {<<>>, ShortLine, LongLine, WrongPrefix, NotHex}

InitDecoder ==
    /\ ztag \in {t.ztag : t \in Transponders} \cup {ExampleZtag, LowerCaseZtag}
                    \cup NoZtags
    /\ decoded = [kind |-> "pending", value |-> <<>>]

\* One call of ztag_to_rfid_number on the line.
decode ==
    /\ decoded.kind = "pending"
    /\ decoded' = ztag_to_rfid_number(ztag)
    /\ UNCHANGED ztag
    /\ UNCHANGED <<linkVars, writerVars, readerVars, storeVars, balVars, supVars,
                   taskVars, rfidVars, socketVars>>

(***************************************************************************)
(* WhiskerMainSocketListener (starfeeder/whisker_qt.py)                    *)
(***************************************************************************)
EOL == <<LF>>
PING == <<"P", "i", "n", "g">>

\* What the server may send as a line.
ServerTexts == {PING, <<"A">>, <<"B">>}
RECURSIVE SeqsUpTo(_, _)
SeqsUpTo(S, n) ==
    IF n = 0 THEN {<<>>}
    ELSE SeqsUpTo(S, n - 1) \cup
         {Append(q, x) : q \in {y \in SeqsUpTo(S, n - 1) : Len(y) = n - 1}, x \in S}

\* The characters of the lines, each line followed by EOL.
RECURSIVE Terminated(_)
Terminated(lines) ==
    IF lines = <<>> THEN <<>> ELSE Head(lines) \o EOL \o Terminated(Tail(lines))

\* The loop over the lines of process_data (lines 357-363): a line that is
\* Ping is acknowledged and ends the call; any other line is emitted.
RECURSIVE EmitUntilPing(_)
EmitUntilPing(lines) ==
    IF lines = <<>> THEN [emitted |-> <<>>, acks |-> 0]
    ELSE IF Head(lines) = PING THEN [emitted |-> <<>>, acks |-> 1]
    ELSE LET r == EmitUntilPing(Tail(lines)) IN
         [emitted |-> <<Head(lines)>> \o r.emitted, acks |-> r.acks]

\* WhiskerMainSocketListener.process_data
listener_process_data(res, data) ==
    LET fragments == split(res \o data, EOL, <<>>)
        r == EmitUntilPing(SubSeq(fragments, 1, Len(fragments) - 1))
    IN [residual |-> fragments[Len(fragments)], emitted |-> r.emitted,
        acks |-> r.acks]

InitSocket ==
    /\ server_lines \in SeqsUpTo(ServerTexts, MaxServerLines)
    /\ socket_pos = 0
    /\ listener_residual = <<>>
    /\ forwarded = <<>>
    /\ ping_acks = 0

\* One pass of the listener's loop with data ready: readAll() returns the
\* next characters of the server's stream, as many as have arrived.
listener_read ==
    /\ \E n \in 1..(Len(Terminated(server_lines)) - socket_pos) :
          LET data == SubSeq(Terminated(server_lines), socket_pos + 1, socket_pos + n)
              r == listener_process_data(listener_residual, data)
          IN /\ socket_pos' = socket_pos + n
             /\ listener_residual' = r.residual
             /\ forwarded' = forwarded \o r.emitted
             /\ ping_acks' = ping_acks + r.acks
    /\ UNCHANGED server_lines
    /\ UNCHANGED <<linkVars, writerVars, readerVars, storeVars, balVars, supVars,
                   taskVars, rfidVars, decoderVars>>

(***************************************************************************)
(* RfidController (weigh/rfid.py)                                          *)
(***************************************************************************)
CMD_RESET_1 == <<"x">>
CMD_READING_CONTINUES == <<"c">>
CMD_NO_OP_CANCEL == <<LF>>
RESPONSE_COMMAND_INVALID == <<"?">>
RESPONSE_COMMAND_NOT_EXECUTED == <<"N">>
RESPONSE_CONTINUOUS_READ_STOPPED == <<"S">>
RESPONSE_ANTENNA_OFF == <<"P">>
RFID_RESET_PAUSE_MS == 200

\* HELLO_REGEX.match(data): ^MULTITAG(.*)$
HELLO_REGEX_match(data) ==
    /\ Len(data) >= 8
    /\ SubSeq(data, 1, 8) = <<"M", "U", "L", "T", "I", "T", "A", "G">>

\* What the reader says after a reset.
HelloLine == <<"M", "U", "L", "T", "I", "T", "A", "G", "-", "1", "2", "5", " ",
               "0", "1">>

\* The lines the reader may send.
ReaderLines ==
    {RESPONSE_COMMAND_INVALID, RESPONSE_CONTINUOUS_READ_STOPPED, HelloLine,
     ExampleZtag, ShortLine, WrongPrefix, NotHex}

InitRfidController ==
    /\ swallow_next_stopped_read = FALSE
    /\ reset_timer = 0
    /\ trace = <<>>
    /\ nreset = 0

\* One entry of the history.
Sent(command) == [kind |-> "send", data |-> command]
Received(data) == [kind |-> "receive", data |-> data]
Logged(data) == [kind |-> "error", data |-> data]
Raised(data) == [kind |-> "raise", data |-> data]
Emitted(event) == [kind |-> "emit", data |-> event]

\* The lines received so far.
NumReceived(h) == Cardinality({k \in DOMAIN h : h[k].kind = "receive"})

\* RfidController.on_start and on_stop: reset(), phase 1.
RfidController_reset ==
    /\ nreset < MaxReset
    /\ nreset' = nreset + 1
    /\ swallow_next_stopped_read' = TRUE
    /\ trace' = Append(trace, Sent(CMD_NO_OP_CANCEL))
    /\ reset_timer' = RFID_RESET_PAUSE_MS
    /\ UNCHANGED <<linkVars, writerVars, readerVars, storeVars, balVars, supVars,
                   taskVars, decoderVars, socketVars>>

\* RfidController.reset_2, when reset_timer fires.
RfidController_reset_2 ==
    /\ reset_timer > 0
    /\ reset_timer' = 0
    /\ swallow_next_stopped_read' = FALSE
    /\ trace' = Append(trace, Sent(CMD_RESET_1))
    /\ UNCHANGED nreset
    /\ UNCHANGED <<linkVars, writerVars, readerVars, storeVars, balVars, supVars,
                   taskVars, decoderVars, socketVars>>

\* RfidController.start_reading: what it adds to the history.
start_reading == <<Sent(CMD_READING_CONTINUES)>>

\* RfidController.on_receive
RfidController_on_receive(data, timestamp) ==
    /\ nreset > 0
    /\ NumReceived(trace) < MaxLines
    /\ LET rx == Append(trace, Received(data)) IN
       IF data = RESPONSE_COMMAND_INVALID
       THEN /\ trace' = rx
            /\ UNCHANGED swallow_next_stopped_read
       ELSE IF data = RESPONSE_COMMAND_NOT_EXECUTED
       THEN /\ trace' = Append(rx, Logged(data))
            /\ UNCHANGED swallow_next_stopped_read
       ELSE IF data = RESPONSE_CONTINUOUS_READ_STOPPED
       THEN IF swallow_next_stopped_read
            THEN /\ swallow_next_stopped_read' = FALSE
                 /\ trace' = rx
            ELSE /\ trace' = rx \o start_reading
                 /\ UNCHANGED swallow_next_stopped_read
       ELSE IF data = RESPONSE_ANTENNA_OFF
       THEN /\ trace' = rx
            /\ UNCHANGED swallow_next_stopped_read
       ELSE IF HELLO_REGEX_match(data)
       THEN /\ trace' = rx \o start_reading
            /\ UNCHANGED swallow_next_stopped_read
       ELSE LET rfid_number == ztag_to_rfid_number(data) IN
            /\ trace' =
                  IF rfid_number.kind = "raise" THEN Append(rx, Raised(data))
                  ELSE IF rfid_number.kind = "None" THEN Append(rx, Logged(data))
                  ELSE Append(rx, Emitted([reader_id |-> PairedReader,
                                           rfid |-> rfid_number.value,
                                           timestamp |-> timestamp]))
            /\ UNCHANGED swallow_next_stopped_read
    /\ UNCHANGED <<reset_timer, nreset>>
    /\ UNCHANGED <<linkVars, writerVars, readerVars, storeVars, balVars, supVars,
                   taskVars, decoderVars, socketVars>>

(***************************************************************************)
(* BalanceController (weigh/balance.py)                                    *)
(***************************************************************************)
CMD_NO_OP == ""
CMD_WARM_RESTART == "RES"
CMD_SET_BAUD_RATE == "BDR"
CMD_QUERY_BAUD_RATE == "BDR?"
CMD_ASCII_RESULT_OUTPUT == "COF3"
CMD_DATA_DELIMITER_COMMA_CR_LF == "TEX172"
CMD_QUERY_IDENTIFICATION == "IDN?"
CMD_QUERY_STATUS == "ESR?"
CMD_QUERY_OUTPUT_SCALING == "NOV?"
CMD_MEASUREMENT_RATE == "ICR"
CMD_QUERY_MEASURE == "MSV?"
CMD_STOP_MEASURING == "STP"
RATE_MAP_HZ_TO_CODE ==
    [hz \in {100, 50, 25, 12, 6, 3, 2, 1} |->
        CASE hz = 100 -> 0 [] hz = 50 -> 1 [] hz = 25 -> 2 [] hz = 12 -> 3
          [] hz = 6 -> 4 [] hz = 3 -> 5 [] hz = 2 -> 6 [] hz = 1 -> 7]
RESET_PAUSE_MS == 3000
BAUDRATE_PAUSE_MS == 200
RESPONSE_UNKNOWN == "?"
PARITY_NONE == "N"
PARITY_EVEN == "E"

\* The raw values a balance may report.
Values == {0, 2}
\* The measurement rates and parities configured.
Rates == {1, 3}
Parities == {PARITY_NONE, PARITY_EVEN}

\* An optional number: {} is None, {v} is v.
NoValue == {}
Some(v) == {v}
Get(o) == CHOOSE v \in o : TRUE

\* int(data): the number whose decimal text is data; {} where int() raises
\* ValueError.
int(data) == {v \in Values : ToString(v) = data}

\* str(params) and "{},{}".format(baud, parity_code): params is the tuple of
\* the numbers to print, empty for ''.
RECURSIVE str(_)
str(params) ==
    IF params = <<>> THEN ""
    ELSE IF Len(params) = 1 THEN ToString(params[1])
    ELSE ToString(Head(params)) \o "," \o str(Tail(params))

\* math.ceil(0.5 * self.measurement_rate_hz), line 120.
Mut_measurements_per_batch(rate_hz) == rate_hz
measurements_per_batch(rate_hz) == (rate_hz + 1) \div 2

\* The controller's fields that its handlers change, as one record.
Bal ==
    [command_queue |-> command_queue,
     n_pending_measurements |-> n_pending_measurements,
     recent_measurements_kg |-> recent_measurements_kg,
     pending_tare |-> pending_tare,
     pending_calibrate |-> pending_calibrate,
     zero_value |-> zero_value,
     refload_value |-> refload_value,
     max_value |-> max_value,
     sent |-> sent,
     mass_received |-> FALSE,
     calibrated |-> <<>>,
     masses |-> masses]

\* The handler ends with the fields as in b.
Commit(b) ==
    /\ command_queue' = b.command_queue
    /\ n_pending_measurements' = b.n_pending_measurements
    /\ recent_measurements_kg' = b.recent_measurements_kg
    /\ pending_tare' = b.pending_tare
    /\ pending_calibrate' = b.pending_calibrate
    /\ zero_value' = b.zero_value
    /\ refload_value' = b.refload_value
    /\ max_value' = b.max_value
    /\ sent' = b.sent
    /\ mass_received' = b.mass_received
    /\ calibrated' = b.calibrated
    /\ masses' = b.masses

\* BalanceController.send(command, params, reply_expected): the command is
\* queued if a reply is expected, and command + str(params) goes to the
\* writer (SerialController.send, no delay).
balance_send(b, command, params, reply_expected) ==
    [b EXCEPT !.command_queue = IF reply_expected THEN Append(@, command) ELSE @,
              !.sent = Append(@, [command |-> command, params |-> params,
                                  msg |-> command \o str(params),
                                  reply_expected |-> reply_expected])]

\* BalanceController.send(command, None): str(None) is "None", and a reply
\* is expected.
balance_send_None(b, command) ==
    [b EXCEPT !.command_queue = Append(@, command),
              !.sent = Append(@, [command |-> command, params |-> <<>>,
                                  msg |-> command \o "None",
                                  reply_expected |-> TRUE])]

\* RATE_MAP_HZ_TO_CODE.get(rate_hz): None for a rate that is no key.
RATE_MAP_HZ_TO_CODE_get(rate_hz) ==
    IF rate_hz \in DOMAIN RATE_MAP_HZ_TO_CODE
    THEN Some(RATE_MAP_HZ_TO_CODE[rate_hz])
    ELSE NoValue

\* The rates the configuration dialog offers.
POSSIBLE_RATES_HZ == {10, 6, 3, 2, 1}

\* [CMD_QUERY_MEASURE] * n
RECURSIVE Repeat(_, _)
Repeat(x, n) == IF n <= 0 THEN <<>> ELSE <<x>> \o Repeat(x, n - 1)

\* BalanceController.start_measuring
Mut_start_measuring(b) ==
    LET n == measurements_per_batch(measurement_rate_hz)
        b1 == balance_send([b EXCEPT !.n_pending_measurements = @ + n],
                           CMD_QUERY_MEASURE, <<n>>, TRUE)
    IN [b1 EXCEPT !.command_queue = @ \o Repeat(CMD_QUERY_MEASURE, n)]
Mut_start_measuring_twice(b) ==
    LET n == measurements_per_batch(measurement_rate_hz)
        b1 == balance_send([b EXCEPT !.n_pending_measurements = @ + n],
                           CMD_QUERY_MEASURE, <<n>>, TRUE)
        b2 == balance_send(b1, CMD_QUERY_MEASURE, <<n>>, FALSE)
    IN [b2 EXCEPT !.command_queue = @ \o Repeat(CMD_QUERY_MEASURE, n - 1)]
start_measuring(b) ==
    LET n == measurements_per_batch(measurement_rate_hz)
        b1 == balance_send([b EXCEPT !.n_pending_measurements = @ + n],
                           CMD_QUERY_MEASURE, <<n>>, TRUE)
    IN [b1 EXCEPT !.command_queue = @ \o Repeat(CMD_QUERY_MEASURE, n - 1)]

\* BalanceController.reset: phase 1.
reset(b) ==
    LET b0 == [b EXCEPT !.recent_measurements_kg = <<>>, !.masses = <<>>]
        b1 == balance_send(b0, CMD_NO_OP, <<>>, FALSE)
        b2 == balance_send(b1, CMD_STOP_MEASURING, <<>>, FALSE)
    IN balance_send(b2, CMD_WARM_RESTART, <<>>, FALSE)

\* The parity code reset_2 sends (lines 158-165).
parity_code(parity) ==
    IF parity = PARITY_NONE THEN 0 ELSE IF parity = PARITY_EVEN THEN 1 ELSE 1

\* BalanceController.reset_2: phase 2.
reset_2(b) ==
    balance_send(b, CMD_SET_BAUD_RATE,
                 <<serial_args.baudrate, parity_code(serial_args.parity)>>, TRUE)

\* BalanceController.reset_3: phase 3.
reset_3(b) ==
    LET b1 == balance_send(b, CMD_QUERY_BAUD_RATE, <<>>, TRUE)
        b2 == balance_send(b1, CMD_QUERY_IDENTIFICATION, <<>>, TRUE)
        b3 == balance_send(b2, CMD_QUERY_STATUS, <<>>, TRUE)
        b4 == balance_send(b3, CMD_ASCII_RESULT_OUTPUT, <<>>, TRUE)
        b5 == balance_send(b4, CMD_DATA_DELIMITER_COMMA_CR_LF, <<>>, TRUE)
        b6 == balance_send(b5, CMD_QUERY_OUTPUT_SCALING, <<>>, TRUE)
        code == RATE_MAP_HZ_TO_CODE_get(measurement_rate_hz)
        b7 == IF code = NoValue
              THEN balance_send_None(b6, CMD_MEASUREMENT_RATE)
              ELSE balance_send(b6, CMD_MEASUREMENT_RATE, <<Get(code)>>, TRUE)
    IN start_measuring(b7)

\* BalanceController.tare, calibrate, ping.
tare(b) ==
    LET b1 == [b EXCEPT !.pending_tare = TRUE] IN
    IF b1.n_pending_measurements = 0 THEN start_measuring(b1) ELSE b1

calibrate(b) ==
    LET b1 == [b EXCEPT !.pending_calibrate = TRUE] IN
    IF b1.n_pending_measurements = 0 THEN start_measuring(b1) ELSE b1

ping(b) ==
    balance_send(balance_send(b, CMD_QUERY_IDENTIFICATION, <<>>, TRUE),
                 CMD_QUERY_STATUS, <<>>, TRUE)

\* BalanceController.stop_measuring: S is sent, the measurement entries
\* leave the queue and the pending count is cleared.
RECURSIVE WithoutMeasure(_)
WithoutMeasure(q) ==
    IF q = <<>> THEN <<>>
    ELSE IF Head(q) = CMD_QUERY_MEASURE THEN WithoutMeasure(Tail(q))
    ELSE <<Head(q)>> \o WithoutMeasure(Tail(q))
Mut_stop_measuring(b) ==
    LET b1 == balance_send(b, CMD_STOP_MEASURING, <<>>, FALSE) IN
    [b1 EXCEPT !.command_queue = WithoutMeasure(@)]
stop_measuring(b) ==
    LET b1 == balance_send(b, CMD_STOP_MEASURING, <<>>, FALSE) IN
    [b1 EXCEPT !.command_queue = WithoutMeasure(@),
               !.n_pending_measurements = 0]

\* Masses are kept as exact quotients n/d (d # 0) of integers.
FromInt(k) == [n |-> k, d |-> 1]
LtQ(a, b) == IF a.d * b.d > 0 THEN a.n * b.d < b.n * a.d ELSE a.n * b.d > b.n * a.d
SubQ(a, b) == [n |-> a.n * b.d - b.n * a.d, d |-> a.d * b.d]
Range(w) == {w[i] : i \in DOMAIN w}
min(w) == CHOOSE m \in Range(w) : \A o \in Range(w) : ~LtQ(o, m)
max(w) == CHOOSE m \in Range(w) : \A o \in Range(w) : ~LtQ(m, o)

\* BalanceController.value_to_mass: {} for None.
value_to_mass(b, value) ==
    IF b.refload_value = NoValue \/ b.zero_value = NoValue
    THEN NoValue
    ELSE Some([n |-> refload_mass_kg * (value - Get(b.zero_value)),
               d |-> Get(b.refload_value) - Get(b.zero_value)])

\* BalanceConfig.unlock_mass_kg, which the configuration keeps positive and
\* below min_mass_kg.  BalanceController takes no such parameter and
\* process_value never looks at it.
unlock_mass_kg == [n |-> 1, d |-> 2]

\* The values of stability_n configured, and the history kept for the
\* largest of them.
StabilityNs == {2, 3}
LastMasses(h) ==
    IF \A n \in StabilityNs : Len(h) > n THEN Tail(h) ELSE h

\* BalanceController.process_value; mass_received tells whether the stable
\* mass was emitted.
Mut_process_value(b, value) ==
    IF value_to_mass(b, value) = NoValue THEN b
    ELSE LET mass_kg == Get(value_to_mass(b, value))
             w0 == b.recent_measurements_kg
             w == Append(IF Len(w0) >= stability_n
                         THEN SubSeq(w0, Len(w0) - stability_n + 2, Len(w0))
                         ELSE w0, mass_kg)
             b1 == [b EXCEPT !.recent_measurements_kg = w,
                             !.masses = LastMasses(Append(@, mass_kg))]
         IN IF LtQ(mass_kg, FromInt(min_mass_kg)) THEN b1
            ELSE IF LtQ(FromInt(tolerance_kg), SubQ(max(w), min(w))) THEN b1
            ELSE [b1 EXCEPT !.mass_received = TRUE]
process_value(b, value) ==
    IF value_to_mass(b, value) = NoValue THEN b
    ELSE LET mass_kg == Get(value_to_mass(b, value))
             w0 == b.recent_measurements_kg
             w == Append(IF Len(w0) >= stability_n
                         THEN SubSeq(w0, Len(w0) - stability_n + 2, Len(w0))
                         ELSE w0, mass_kg)
             b1 == [b EXCEPT !.recent_measurements_kg = w,
                             !.masses = LastMasses(Append(@, mass_kg))]
         IN IF LtQ(mass_kg, FromInt(min_mass_kg)) THEN b1
            ELSE IF Len(w) < stability_n THEN b1
            ELSE IF LtQ(FromInt(tolerance_kg), SubQ(max(w), min(w))) THEN b1
            ELSE [b1 EXCEPT !.mass_received = TRUE]

\* BalanceController.report_calibration
report_calibration(b) ==
    [b EXCEPT !.calibrated = Append(@, [zero_value |-> b.zero_value,
                                        refload_value |-> b.refload_value])]

\* BalanceController.tare_with
Mut_tare_with_zero_only(b, value) ==
    LET b1 == [b EXCEPT !.pending_tare = FALSE] IN
    IF Some(value) = b.zero_value THEN b1
    ELSE LET r == b.refload_value
         IN report_calibration(
                [b1 EXCEPT !.zero_value = Some(value),
                           !.refload_value = IF r = Some(value) THEN NoValue ELSE r])
Mut_tare_with_always_reports(b, value) ==
    LET b1 == [b EXCEPT !.pending_tare = FALSE] IN
    IF Some(value) = b.zero_value THEN report_calibration(b1)
    ELSE LET r == IF b.zero_value = NoValue \/ b.refload_value = NoValue
                  THEN b.refload_value
                  ELSE Some(Get(b.refload_value) + (value - Get(b.zero_value)))
         IN report_calibration(
                [b1 EXCEPT !.zero_value = Some(value),
                           !.refload_value = IF r = Some(value) THEN NoValue ELSE r])
tare_with(b, value) ==
    LET b1 == [b EXCEPT !.pending_tare = FALSE] IN
    IF Some(value) = b.zero_value THEN b1
    ELSE LET r == IF b.zero_value = NoValue \/ b.refload_value = NoValue
                  THEN b.refload_value
                  ELSE Some(Get(b.refload_value) + (value - Get(b.zero_value)))
         IN report_calibration(
                [b1 EXCEPT !.zero_value = Some(value),
                           !.refload_value = IF r = Some(value) THEN NoValue ELSE r])

\* BalanceController.calibrate_with
Mut_calibrate_with_keeps_equal(b, value) ==
    LET b1 == [b EXCEPT !.pending_calibrate = FALSE] IN
    IF Some(value) = b.refload_value THEN b1
    ELSE report_calibration([b1 EXCEPT !.refload_value = Some(value)])
calibrate_with(b, value) ==
    LET b1 == [b EXCEPT !.pending_calibrate = FALSE] IN
    IF Some(value) = b.refload_value THEN b1
    ELSE report_calibration(
             [b1 EXCEPT !.refload_value =
                            IF Some(value) = b.zero_value THEN NoValue ELSE Some(value)])

\* The command on_receive takes a line for: the head of the queue, or None.
TakenFor(q) == IF q # <<>> THEN Head(q) ELSE "None"

\* BalanceController.on_receive(data, timestamp)
Mut_on_receive_restart(b, data, timestamp) ==
    LET cmd == TakenFor(b.command_queue)
        b0 == [b EXCEPT !.command_queue = IF @ # <<>> THEN Tail(@) ELSE @]
    IN
    IF cmd = CMD_QUERY_MEASURE
    THEN LET b1 == IF int(data) = {} THEN b0
                   ELSE IF b0.pending_tare THEN tare_with(b0, Get(int(data)))
                   ELSE IF b0.pending_calibrate THEN calibrate_with(b0, Get(int(data)))
                   ELSE process_value(b0, Get(int(data)))
             b2 == [b1 EXCEPT !.n_pending_measurements = @ - 1]
         IN IF b2.n_pending_measurements = 0
               /\ (read_continuously \/ timestamp > read_until)
            THEN start_measuring(b2)
            ELSE b2
    ELSE IF cmd = CMD_QUERY_OUTPUT_SCALING /\ int(data) # {}
    THEN [b0 EXCEPT !.max_value = Get(int(data))]
    ELSE b0
Mut_on_receive_bad_value(b, data, timestamp) ==
    LET cmd == TakenFor(b.command_queue)
        b0 == [b EXCEPT !.command_queue = IF @ # <<>> THEN Tail(@) ELSE @]
    IN
    IF cmd = CMD_QUERY_MEASURE
    THEN LET b1 == IF int(data) = {} THEN b0
                   ELSE IF b0.pending_tare THEN tare_with(b0, Get(int(data)))
                   ELSE IF b0.pending_calibrate THEN calibrate_with(b0, Get(int(data)))
                   ELSE process_value(b0, Get(int(data)))
             b2 == IF int(data) = {} THEN b1
                   ELSE [b1 EXCEPT !.n_pending_measurements = @ - 1]
         IN IF b2.n_pending_measurements = 0
               /\ (read_continuously \/ timestamp < read_until)
            THEN start_measuring(b2)
            ELSE b2
    ELSE IF cmd = CMD_QUERY_OUTPUT_SCALING /\ int(data) # {}
    THEN [b0 EXCEPT !.max_value = Get(int(data))]
    ELSE b0
Mut_on_receive_calibrate_first(b, data, timestamp) ==
    LET cmd == TakenFor(b.command_queue)
        b0 == [b EXCEPT !.command_queue = IF @ # <<>> THEN Tail(@) ELSE @]
    IN
    IF cmd = CMD_QUERY_MEASURE
    THEN LET b1 == IF int(data) = {} THEN b0
                   ELSE IF b0.pending_calibrate THEN calibrate_with(b0, Get(int(data)))
                   ELSE IF b0.pending_tare THEN tare_with(b0, Get(int(data)))
                   ELSE process_value(b0, Get(int(data)))
             b2 == [b1 EXCEPT !.n_pending_measurements = @ - 1]
         IN IF b2.n_pending_measurements = 0
               /\ (read_continuously \/ timestamp < read_until)
            THEN start_measuring(b2)
            ELSE b2
    ELSE IF cmd = CMD_QUERY_OUTPUT_SCALING /\ int(data) # {}
    THEN [b0 EXCEPT !.max_value = Get(int(data))]
    ELSE b0
Mut_on_receive_any_line(b, data, timestamp) ==
    LET cmd == TakenFor(b.command_queue)
        b0 == [b EXCEPT !.command_queue = IF @ # <<>> THEN Tail(@) ELSE @]
    IN
    IF cmd = CMD_QUERY_MEASURE \/ cmd = "None"
    THEN LET b1 == IF int(data) = {} THEN b0
                   ELSE IF b0.pending_tare THEN tare_with(b0, Get(int(data)))
                   ELSE IF b0.pending_calibrate THEN calibrate_with(b0, Get(int(data)))
                   ELSE process_value(b0, Get(int(data)))
             b2 == IF cmd = "None" THEN b1
                   ELSE [b1 EXCEPT !.n_pending_measurements = @ - 1]
         IN IF b2.n_pending_measurements = 0 /\ cmd # "None"
               /\ (read_continuously \/ timestamp < read_until)
            THEN start_measuring(b2)
            ELSE b2
    ELSE IF cmd = CMD_QUERY_OUTPUT_SCALING /\ int(data) # {}
    THEN [b0 EXCEPT !.max_value = Get(int(data))]
    ELSE b0
on_receive(b, data, timestamp) ==
    LET cmd == TakenFor(b.command_queue)
        b0 == [b EXCEPT !.command_queue = IF @ # <<>> THEN Tail(@) ELSE @]
    IN
    IF cmd = CMD_QUERY_MEASURE
    THEN LET b1 == IF int(data) = {} THEN b0
                   ELSE IF b0.pending_tare THEN tare_with(b0, Get(int(data)))
                   ELSE IF b0.pending_calibrate THEN calibrate_with(b0, Get(int(data)))
                   ELSE process_value(b0, Get(int(data)))
             b2 == [b1 EXCEPT !.n_pending_measurements = @ - 1]
         IN IF b2.n_pending_measurements = 0
               /\ (read_continuously \/ timestamp < read_until)
            THEN start_measuring(b2)
            ELSE b2
    ELSE IF cmd = CMD_QUERY_OUTPUT_SCALING /\ int(data) # {}
    THEN [b0 EXCEPT !.max_value = Get(int(data))]
    ELSE b0

\* The balance at the other end of the line: for each message it was sent,
\* in order, the number of lines it answers with (one per command that
\* expects a reply, n for MSV?n).
DeviceLines(m) ==
    IF ~m.reply_expected THEN 0
    ELSE IF m.command = CMD_QUERY_MEASURE THEN m.params[1] ELSE 1

\* The messages (by position in sent) that the balance's lines answer, in the
\* order of the lines.
RECURSIVE Schedule(_, _)
Schedule(log, i) ==
    IF i > Len(log) THEN <<>>
    ELSE Repeat(i, DeviceLines(log[i])) \o Schedule(log, i + 1)

\* What the balance may answer to a command.
ReplyData(command) ==
    IF command = CMD_QUERY_MEASURE
    THEN {ToString(v) : v \in Values} \cup {RESPONSE_UNKNOWN}
    ELSE {"0"}

\* The times a line may be stamped with: not before the construction.
Timestamps == {1}

\* zeros and refloads are the calibration points the configuration may hold.
InitBalanceWith(rates, zeros, refloads) ==
    /\ serial_args \in [baudrate : {9600}, parity : Parities]
    /\ measurement_rate_hz \in rates
    /\ read_continuously \in BOOLEAN
    /\ stability_n \in StabilityNs
    /\ tolerance_kg \in {0, 1}
    /\ min_mass_kg = 1
    /\ refload_mass_kg = 1
    \* datetime.utcnow() at construction (line 127), the origin of the clock
    /\ read_until = 0
    /\ zero_value \in zeros
    /\ refload_value \in refloads
    /\ command_queue = <<>>
    /\ n_pending_measurements = 0
    /\ recent_measurements_kg = <<>>
    /\ pending_tare = FALSE
    /\ pending_calibrate = FALSE
    /\ max_value = 100000
    /\ reset_timer_1 = 0
    /\ reset_timer_2 = 0
    /\ phase = 0
    /\ sent = <<>>
    /\ mass_received = FALSE
    /\ calibrated = <<>>
    /\ masses = <<>>
    /\ nlines = 0
    /\ last_rx = [elicited_by |-> "None", taken_for |-> "None", data |-> "",
                  timestamp |-> 0]
    /\ requested = FALSE
    /\ nnoise = 0
    /\ last_rfid = [n |-> 0, timestamp |-> 0]

InitBalanceFor(rates) == InitBalanceWith(rates, {NoValue, Some(0)}, {Some(2)})

InitBalance == InitBalanceFor(Rates)

\* What a handler of the controller leaves alone besides the fields of Bal.
BalRest(keep) ==
    /\ UNCHANGED balCfgVars
    /\ UNCHANGED keep
    /\ UNCHANGED <<linkVars, writerVars, readerVars, storeVars, supVars,
                 taskVars, rfidVars, decoderVars, socketVars>>

\* A handler outside the reset sequence may end with the fields as in b: the
\* messages sent besides those of the reset sequence (3 in phase 1, 1 in
\* phase 2, 8 in phase 3) stay within the bound.
WithinBound(b) ==
    Len(b.sent) - (CASE phase = 0 -> 0 [] phase = 1 -> 3 [] phase = 2 -> 4 [] phase = 3 -> 12)
        <= MaxExtra

\* BalanceController.on_start: reset(), which arms reset_timer_1.
on_start ==
    /\ phase = 0
    /\ Commit(reset(Bal))
    /\ reset_timer_1' = RESET_PAUSE_MS
    /\ phase' = 1
    /\ BalRest(<<last_rfid, nnoise, reset_timer_2, nlines, last_rx, requested>>)

\* reset_timer_1.timeout -> reset_2, which arms reset_timer_2.
reset_timer_1_timeout ==
    /\ reset_timer_1 > 0
    /\ Commit(reset_2(Bal))
    /\ reset_timer_1' = 0
    /\ reset_timer_2' = BAUDRATE_PAUSE_MS
    /\ phase' = 2
    /\ BalRest(<<last_rfid, nnoise, nlines, last_rx, requested>>)

\* reset_timer_2.timeout -> reset_3.
reset_timer_2_timeout ==
    /\ reset_timer_2 > 0
    /\ Commit(reset_3(Bal))
    /\ reset_timer_2' = 0
    /\ phase' = 3
    /\ BalRest(<<last_rfid, nnoise, reset_timer_1, nlines, last_rx, requested>>)

\* BalanceOwner.ping_requested, tare_requested, calibration_requested
\* reaching the controller of a running link.
ping_requested ==
    /\ phase > 0
    /\ WithinBound(ping(Bal))
    /\ requested' = TRUE
    /\ Commit(ping(Bal))
    /\ BalRest(<<last_rfid, nnoise, reset_timer_1, reset_timer_2, phase, nlines, last_rx>>)

tare_requested ==
    /\ phase > 0
    /\ WithinBound(tare(Bal))
    /\ requested' = TRUE
    /\ Commit(tare(Bal))
    /\ BalRest(<<last_rfid, nnoise, reset_timer_1, reset_timer_2, phase, nlines, last_rx>>)

calibration_requested ==
    /\ phase > 0
    /\ WithinBound(calibrate(Bal))
    /\ requested' = TRUE
    /\ Commit(calibrate(Bal))
    /\ BalRest(<<last_rfid, nnoise, reset_timer_1, reset_timer_2, phase, nlines, last_rx>>)

\* BalanceController.on_stop: stop_measuring(), then finished is emitted;
\* the controller still takes the requests and lines queued for it.
on_stop ==
    /\ phase > 0
    /\ WithinBound(stop_measuring(Bal))
    /\ Commit(stop_measuring(Bal))
    /\ BalRest(<<last_rfid, nnoise, reset_timer_1, reset_timer_2, phase, nlines,
                 last_rx, requested>>)

\* BalanceController.on_rfid(rfid_single_event), the event carrying
\* reader_id and timestamp: an event of another reader is refused with a
\* warning; for one of the paired reader the handler raises (the event has
\* no balance_id, line 318; and self.read_until, the attribute of line 127
\* that hides the method of lines 191-197, is not callable, line 326).
\* Either way no field of the controller changes and nothing is sent.
on_rfid ==
    /\ phase > 0
    /\ last_rfid.n < MaxRfid
    /\ \E reader_id \in Readers, timestamp \in Timestamps :
          last_rfid' = IF reader_id = PairedReader
                       THEN [n |-> last_rfid.n + 1, timestamp |-> timestamp]
                       ELSE last_rfid
    /\ Commit(Bal)
    /\ BalRest(<<nnoise, reset_timer_1, reset_timer_2, phase, nlines, last_rx, requested>>)

\* line_received -> on_receive, for the next line the balance owes.
receive_reply ==
    /\ nlines < Len(Schedule(sent, 1))
    /\ LET elicited == sent[Schedule(sent, 1)[nlines + 1]].command IN
       \E data \in ReplyData(elicited), timestamp \in Timestamps :
          /\ WithinBound(on_receive(Bal, data, timestamp))
          /\ Commit(on_receive(Bal, data, timestamp))
          /\ last_rx' = [elicited_by |-> elicited,
                         taken_for |-> TakenFor(command_queue),
                         data |-> data, timestamp |-> timestamp]
    /\ nlines' = nlines + 1
    /\ BalRest(<<last_rfid, nnoise, reset_timer_1, reset_timer_2, phase, requested>>)

\* line_received -> on_receive, for the next line the balance owes, when
\* the balance did not understand the command.
receive_error_reply ==
    /\ nlines < Len(Schedule(sent, 1))
    /\ LET elicited == sent[Schedule(sent, 1)[nlines + 1]].command IN
       \E timestamp \in Timestamps :
          /\ elicited # CMD_QUERY_MEASURE
          /\ WithinBound(on_receive(Bal, RESPONSE_UNKNOWN, timestamp))
          /\ Commit(on_receive(Bal, RESPONSE_UNKNOWN, timestamp))
          /\ last_rx' = [elicited_by |-> elicited,
                         taken_for |-> TakenFor(command_queue),
                         data |-> RESPONSE_UNKNOWN, timestamp |-> timestamp]
    /\ nlines' = nlines + 1
    /\ BalRest(<<last_rfid, nnoise, reset_timer_1, reset_timer_2, phase, requested>>)

\* line_received -> on_receive, for a line that answers no command.
NoiseData == {"2", RESPONSE_UNKNOWN}
receive_unsolicited ==
    /\ phase > 0
    /\ nnoise < MaxNoise
    /\ \E data \in NoiseData, timestamp \in Timestamps :
          /\ WithinBound(on_receive(Bal, data, timestamp))
          /\ Commit(on_receive(Bal, data, timestamp))
          /\ last_rx' = [elicited_by |-> "None",
                         taken_for |-> TakenFor(command_queue),
                         data |-> data, timestamp |-> timestamp]
    /\ nnoise' = nnoise + 1
    /\ BalRest(<<last_rfid, nlines, reset_timer_1, reset_timer_2, phase, requested>>)

(***************************************************************************)
(* BaseWindow (starfeeder/gui.py): the links it owns, each seen through    *)
(* its SerialOwner.state as is_running() sees it.                          *)
(***************************************************************************)
\* rfid_list followed by balance_list.
Links == {"rfid1", "rfid2", "balance1"}

InitSupervisor ==
    /\ owner_state = [l \in Links |-> "stopped"]
    /\ launching = [l \in Links |-> FALSE]
    /\ open_failed = {}
    /\ stop_called = {}
    /\ status_shown = {}
    /\ whisker_owner_state = "stopped"
    /\ exit_pending = FALSE
    /\ last_report = [shown |-> FALSE, owners |-> [l \in Links |-> "stopped"],
                      whisker |-> "stopped", quit |-> FALSE]

\* BaseWindow.anything_running, for the owners in the states given:
\* is_running() is state != stopped.
Mut_is_anything_running(owners, whisker) == \E l \in Links : owners[l] # "stopped"
is_anything_running(owners, whisker) ==
    \/ \E l \in Links : owners[l] # "stopped"
    \/ whisker # "stopped"

\* BaseWindow.anything_running
anything_running == is_anything_running(owner_state, whisker_owner_state)

\* BaseWindow.something_finished, called where an owner emits finished with
\* the owners in the states given: the report shown last, after it.
something_finished(owners, whisker, report) ==
    IF is_anything_running(owners, whisker)
    THEN report
    ELSE [shown |-> TRUE, owners |-> owners, whisker |-> whisker,
          quit |-> exit_pending]

\* QApplication.quit() has been called.
has_quit == last_report.quit

\* The order of rfid_list followed by balance_list.
StartOrder == <<"rfid1", "rfid2", "balance1">>

\* SerialOwner.start() of a new link: with the port open the writer thread is
\* started and the link is Starting; otherwise the error is sent, the link
\* calls its own stop() and, no thread running, is Stopped at once.
owner_start(opened) == IF opened THEN "starting" ELSE "stopped"

\* SerialOwner.stop(): refused when Stopped, else Stopping.
owner_stop(st) == IF st = "stopped" THEN "stopped" ELSE "stopping"

\* The loops of BaseWindow.start over rfid_list and balance_list: each new
\* owner is started in turn while the later ones, and whisker_owner, are
\* still Stopped; an owner whose port fails emits finished on the spot.
RECURSIVE start_links(_, _, _, _)
start_links(order, opened, owners, report) ==
    IF order = <<>> THEN [owners |-> owners, report |-> report]
    ELSE LET l == Head(order)
             started == [owners EXCEPT ![l] = owner_start(opened[l])]
         IN start_links(Tail(order), opened, started,
                        IF opened[l] THEN report
                        ELSE something_finished(started, "stopped", report))

\* BaseWindow.start: new owners are made and each is started in turn;
\* error_sent is connected to on_status.
BaseWindow_start ==
    /\ ~has_quit
    /\ ~anything_running
    /\ \E opened \in [Links -> BOOLEAN] :
          /\ owner_state' = [l \in Links |-> owner_start(opened[l])]
          /\ last_report' = start_links(StartOrder, opened,
                                        [l \in Links |-> "stopped"],
                                        last_report).report
          /\ launching' = opened
          /\ open_failed' = {l \in Links : ~opened[l]}
          /\ stop_called' = {l \in Links : ~opened[l]}
          /\ status_shown' = {l \in Links : ~opened[l]}
    /\ whisker_owner_state' = "running"
    /\ UNCHANGED exit_pending
    /\ UNCHANGED <<linkVars, writerVars, readerVars, storeVars, balVars,
                   taskVars, rfidVars, decoderVars, socketVars>>

\* BaseWindow.stop: stop() on every link.
BaseWindow_stop ==
    /\ ~has_quit
    /\ anything_running
    /\ owner_state' = [l \in Links |-> owner_stop(owner_state[l])]
    /\ stop_called' = Links
    /\ whisker_owner_state' = owner_stop(whisker_owner_state)
    /\ UNCHANGED <<launching, open_failed, status_shown, exit_pending, last_report>>
    /\ UNCHANGED <<linkVars, writerVars, readerVars, storeVars, balVars,
                   taskVars, rfidVars, decoderVars, socketVars>>

\* BaseWindow.closeEvent, confirmed, with something running: the exit is
\* deferred and everything is asked to stop.
closeEvent ==
    /\ ~has_quit
    /\ anything_running
    /\ exit_pending' = TRUE
    /\ owner_state' = [l \in Links |-> owner_stop(owner_state[l])]
    /\ stop_called' = Links
    /\ whisker_owner_state' = owner_stop(whisker_owner_state)
    /\ UNCHANGED <<launching, open_failed, status_shown, last_report>>
    /\ UNCHANGED <<linkVars, writerVars, readerVars, storeVars, balVars,
                   taskVars, rfidVars, decoderVars, socketVars>>

\* SerialOwner.controllerthread_started of link l, at the end of the chain
\* of thread starts: Running, whatever the state was.
owner_running(l) ==
    /\ ~has_quit
    /\ launching[l]
    /\ owner_state' = [owner_state EXCEPT ![l] = "running"]
    /\ launching' = [launching EXCEPT ![l] = FALSE]
    /\ UNCHANGED <<open_failed, stop_called, status_shown>>
    /\ UNCHANGED <<whisker_owner_state, exit_pending, last_report>>
    /\ UNCHANGED <<linkVars, writerVars, readerVars, storeVars, balVars,
                   taskVars, rfidVars, decoderVars, socketVars>>

\* SerialOwner.check_everything_finished of link l finding no thread
\* running after a stop: Stopped, and finished goes to something_finished.
owner_finished(l) ==
    /\ ~has_quit
    /\ ~launching[l]
    /\ l \in stop_called
    /\ owner_state[l] # "stopped"
    /\ owner_state' = [owner_state EXCEPT ![l] = "stopped"]
    /\ last_report' = something_finished(owner_state', whisker_owner_state,
                                         last_report)
    /\ UNCHANGED <<launching, open_failed, stop_called, status_shown>>
    /\ UNCHANGED <<whisker_owner_state, exit_pending>>
    /\ UNCHANGED <<linkVars, writerVars, readerVars, storeVars, balVars,
                   taskVars, rfidVars, decoderVars, socketVars>>

\* WhiskerOwner.check_everything_finished finding no thread running after a
\* stop: Stopped, and finished goes to something_finished.
whisker_finished ==
    /\ ~has_quit
    /\ whisker_owner_state = "stopping"
    /\ whisker_owner_state' = "stopped"
    /\ last_report' = something_finished(owner_state, "stopped", last_report)
    /\ UNCHANGED <<owner_state, launching, open_failed, stop_called, status_shown,
                   exit_pending>>
    /\ UNCHANGED <<linkVars, writerVars, readerVars, storeVars, balVars,
                   taskVars, rfidVars, decoderVars, socketVars>>

(***************************************************************************)
(* Specifications                                                          *)
(***************************************************************************)
NextSupervisor ==
    \/ BaseWindow_start
    \/ BaseWindow_stop
    \/ closeEvent
    \/ \E l \in Links : owner_running(l)
    \/ \E l \in Links : owner_finished(l)
    \/ whisker_finished

NextLink == start \/ stop \/ MainStep \/ ThreadStep \/ reader_read_error

NextWriter == WriterSend \/ WriterTimer

NextReader == ReaderRead

NextStore == Tick \/ record_rfid_detection \/ record_mass_detection

NextBalance ==
    \/ on_start
    \/ reset_timer_1_timeout
    \/ reset_timer_2_timeout
    \/ ping_requested
    \/ tare_requested
    \/ calibration_requested
    \/ receive_reply

NextRfid == NextBalance \/ on_rfid

NextProtocol ==
    \/ on_start
    \/ reset_timer_1_timeout
    \/ reset_timer_2_timeout
    \/ tare_requested
    \/ receive_reply
    \/ receive_error_reply
    \/ receive_unsolicited

\* The requests and the stray lines come once the reset sequence has been
\* issued.
NextPending ==
    \/ on_start
    \/ reset_timer_1_timeout
    \/ reset_timer_2_timeout
    \/ receive_reply
    \/ phase = 3 /\ ping_requested
    \/ phase = 3 /\ tare_requested
    \/ phase = 3 /\ calibration_requested
    \/ phase = 3 /\ on_stop
    \/ phase = 3 /\ receive_unsolicited

NextRates ==
    \/ on_start
    \/ reset_timer_1_timeout
    \/ reset_timer_2_timeout
    \/ tare_requested
    \/ receive_reply

NextTask == Tick \/ whisker_socket_changes \/ (\E e \in MassEvents(now) : on_mass(e))

NextRfidController ==
    \/ RfidController_reset
    \/ RfidController_reset_2
    \/ \E data \in ReaderLines, timestamp \in Timestamps :
          RfidController_on_receive(data, timestamp)

NextDecoder == decode

NextSocket == listener_read

\* Every specification starts from the state after construction; the
\* configuration of a component is chosen freely in that component's own
\* specification and fixed in the others.
FixedReader == rx_eol = CRLF
FixedStore == rfid_effective_time_s = 1
\* The link and the detector of the balance under study.
FixedLinkOfBalance ==
    /\ serial_args.parity = PARITY_EVEN
    /\ measurement_rate_hz = 3
    /\ read_continuously
FixedDetector ==
    /\ stability_n = 2
    /\ tolerance_kg = 1
    /\ zero_value = NoValue
FixedTask == wcm_prefix = ""
FixedDecoder == ztag = ExampleZtag
FixedSocket == server_lines = <<>>
FixedBalance == FixedLinkOfBalance /\ FixedDetector

InitOfLink ==
    /\ InitLink /\ InitWriter /\ InitSupervisor
    /\ InitTask /\ FixedTask /\ InitRfidController /\ InitSocket /\ FixedSocket /\ InitDecoder /\ FixedDecoder
    /\ InitReader /\ FixedReader
    /\ InitStore /\ FixedStore
    /\ InitBalance /\ FixedBalance
InitOfWriter == InitOfLink
InitOfReader ==
    /\ InitLink /\ InitWriter /\ InitSupervisor
    /\ InitTask /\ FixedTask /\ InitRfidController /\ InitSocket /\ FixedSocket /\ InitDecoder /\ FixedDecoder
    /\ InitReader
    /\ InitStore /\ FixedStore
    /\ InitBalance /\ FixedBalance
InitOfStore ==
    /\ InitLink /\ InitWriter /\ InitSupervisor
    /\ InitTask /\ FixedTask /\ InitRfidController /\ InitSocket /\ FixedSocket /\ InitDecoder /\ FixedDecoder
    /\ InitReader /\ FixedReader
    /\ InitStore
    /\ InitBalance /\ FixedBalance
InitOfBalance ==
    /\ InitLink /\ InitWriter /\ InitSupervisor
    /\ InitTask /\ FixedTask /\ InitRfidController /\ InitSocket /\ FixedSocket /\ InitDecoder /\ FixedDecoder
    /\ InitReader /\ FixedReader
    /\ InitStore /\ FixedStore
    /\ InitBalance /\ FixedDetector
InitOfRfid ==
    /\ InitOfBalance
    /\ serial_args.parity = PARITY_EVEN
    /\ measurement_rate_hz = 3
InitOfProtocol ==
    /\ InitLink /\ InitWriter /\ InitSupervisor
    /\ InitTask /\ FixedTask /\ InitRfidController /\ InitSocket /\ FixedSocket /\ InitDecoder /\ FixedDecoder
    /\ InitReader /\ FixedReader
    /\ InitStore /\ FixedStore
    /\ InitBalance
    /\ serial_args.parity = PARITY_EVEN
    /\ measurement_rate_hz = 3
    /\ stability_n = 2
    /\ tolerance_kg = 1
    /\ zero_value = NoValue
    /\ ~read_continuously
InitOfDetector ==
    /\ InitLink /\ InitWriter /\ InitSupervisor
    /\ InitTask /\ FixedTask /\ InitRfidController /\ InitSocket /\ FixedSocket /\ InitDecoder /\ FixedDecoder
    /\ InitReader /\ FixedReader
    /\ InitStore /\ FixedStore
    /\ InitBalance /\ FixedLinkOfBalance /\ zero_value # NoValue

InitOfSupervisor == InitOfLink

SpecLink == InitOfLink /\ [][NextLink]_vars

\* The GUI thread and the link's threads are scheduled fairly; the user's
\* start() and stop() and the port's failures are not.
SpecLinkFair == SpecLink /\ WF_vars(MainStep) /\ WF_vars(ThreadStep)

SpecWriter == InitOfWriter /\ [][NextWriter]_vars

\* The writer keeps running and its single-shot timer fires once armed;
\* nobody is obliged to call send().
SpecWriterFair == SpecWriter /\ WF_vars(WriterTimer)

SpecReader == InitOfReader /\ [][NextReader]_vars

SpecStore == InitOfStore /\ [][NextStore]_vars

\* The balance controller, for every configuration of its link.
SpecBalance == InitOfBalance /\ [][NextBalance]_vars

\* The balance controller of a calibrated balance, for one configuration of
\* its link and its stability detector.
InitOfCalibration ==
    /\ InitOfDetector
    /\ stability_n = 2
    /\ tolerance_kg = 1

SpecCalibration == InitOfCalibration /\ [][NextBalance]_vars

\* The balance controller and the RFID detections routed to it.
SpecRfid == InitOfRfid /\ [][NextRfid]_vars

\* The balance controller with a balance that may answer "?" and a line that
\* may carry lines no command asked for.
SpecProtocol == InitOfProtocol /\ [][NextProtocol]_vars

\* The balance controller, for every configuration of its stability detector.
SpecDetector == InitOfDetector /\ [][NextBalance]_vars

\* The window and its links.
SpecSupervisor == InitOfSupervisor /\ [][NextSupervisor]_vars

\* The balance controller at every rate the configuration dialog offers.
InitOfRates ==
    /\ InitLink /\ InitWriter /\ InitSupervisor
    /\ InitTask /\ FixedTask /\ InitRfidController /\ InitSocket /\ FixedSocket /\ InitDecoder /\ FixedDecoder
    /\ InitReader /\ FixedReader
    /\ InitStore /\ FixedStore
    /\ InitBalanceFor(POSSIBLE_RATES_HZ)
    /\ serial_args.parity = PARITY_EVEN
    /\ stability_n = 2
    /\ tolerance_kg = 1
    /\ zero_value = NoValue

SpecRates == InitOfRates /\ [][NextRates]_vars

\* The balance controller with every request it takes, stop included, and
\* a balance whose lines may be invalid or answer no command.
SpecPending == InitOfProtocol /\ [][NextPending]_vars

\* The balance controller, for every pair of calibration points a
\* configuration may hold: each of them absent or a reading, and different
\* from each other where both are present.
CalibrationPoints == {NoValue} \cup {Some(v) : v \in Values}
InitOfTare ==
    /\ InitLink /\ InitWriter /\ InitSupervisor
    /\ InitTask /\ FixedTask /\ InitRfidController /\ InitSocket /\ FixedSocket /\ InitDecoder /\ FixedDecoder
    /\ InitReader /\ FixedReader
    /\ InitStore /\ FixedStore
    /\ InitBalanceWith({1}, CalibrationPoints, CalibrationPoints)
    /\ zero_value = NoValue \/ refload_value = NoValue \/ zero_value # refload_value
    /\ serial_args.parity = PARITY_EVEN
    /\ stability_n = 2
    /\ tolerance_kg = 1

SpecTare == InitOfTare /\ [][NextBalance]_vars

\* The Whisker task and the mass events handed to it.
InitOfTask ==
    /\ InitLink /\ InitWriter /\ InitSupervisor
    /\ InitTask /\ InitRfidController /\ InitSocket /\ FixedSocket /\ InitDecoder /\ FixedDecoder
    /\ InitReader /\ FixedReader
    /\ InitStore /\ FixedStore
    /\ InitBalance /\ FixedBalance

SpecTask == InitOfTask /\ [][NextTask]_vars

\* The RFID controller and the lines of its reader.
SpecRfidController == InitOfLink /\ [][NextRfidController]_vars

\* ztag_to_rfid_number, for every line tried.
InitOfDecoder ==
    /\ InitLink /\ InitWriter /\ InitSupervisor
    /\ InitTask /\ FixedTask /\ InitRfidController /\ InitSocket /\ FixedSocket /\ InitDecoder
    /\ InitReader /\ FixedReader
    /\ InitStore /\ FixedStore
    /\ InitBalance /\ FixedBalance

SpecDecoder == InitOfDecoder /\ [][NextDecoder]_vars

\* The listener of the Whisker main socket, for every stream of lines tried.
InitOfSocket ==
    /\ InitLink /\ InitWriter /\ InitSupervisor
    /\ InitTask /\ FixedTask /\ InitRfidController /\ InitSocket
    /\ InitDecoder /\ FixedDecoder
    /\ InitReader /\ FixedReader
    /\ InitStore /\ FixedStore
    /\ InitBalance /\ FixedBalance

SpecSocket == InitOfSocket /\ [][NextSocket]_vars

(***************************************************************************)
(* Claims about the serial link                                            *)
(***************************************************************************)
\* C1: once stop() has been accepted (the state is Stopping), the link
\* eventually reaches Stopped (where finished is emitted), under fair
\* scheduling of the GUI thread and of the link's threads.
C1_StopLeadsToStopped == (state = "stopping") ~> (state = "stopped")

\* C2: the port is closed, and the state is Stopped, only while none of the
\* reader, writer and controller threads is running.
C2_StoppedOnlyWhenNoThreadRuns ==
    (state = "stopped" \/ serial_port = "closed") => \A t \in Threads : thread[t] = "off"

C2_Witness ==
    /\ state = "stopped"
    /\ serial_port = "closed"
    /\ <<"running", "stopping">> \in transitions
    /\ <<"stopping", "stopped">> \in transitions

\* C5: every state change passed through set_state is an edge of the cycle
\* Stopped -> Starting -> Running -> Stopping -> Stopped.
C5_OnlyCycleEdges ==
    \A e \in transitions : e[1] # e[2] => e \in CycleEdges

\* C10: once a read or a write on the port has raised, the error is logged
\* and the link goes on to Stopped.
C10_ErrorLeadsToStopped ==
    ("read" \in errlog \/ "write" \in errlog) ~> (state = "stopped")

(***************************************************************************)
(* Claims about the writer                                                 *)
(***************************************************************************)
\* C3: for any interleaving of send() calls and timer expiries, the write
\* attempts on the port are the entries in the order of the send() calls,
\* each as its bytes followed by tx_eol, and the entries not yet attempted
\* wait in the queue in that same order.
C3_FifoWithEol ==
    /\ Len(port_log) + Len(queue) = Len(send_log)
    /\ \A i \in 1..Len(port_log) : port_log[i].bytes = send_log[i].data \o tx_eol
    /\ \A i \in 1..Len(queue) : queue[i].data = send_log[Len(port_log) + i].data

\* A delayed entry was written after its wait, followed by entries that were
\* sent during the wait, one of them delayed in turn.
C3_Witness ==
    /\ Len(port_log) = 3
    /\ send_log[1].delay_ms > 0
    /\ send_log[2].delay_ms > 0
    /\ send_log[1].data # send_log[2].data
    /\ send_log[2].data # send_log[3].data

\* C12 as stated: an entry sent with a delay is written to the port first,
\* and the wait it asked for follows: the write attempt made last before each
\* wait is that entry's.
C12_WriteThenWait ==
    \A k \in 1..Len(wait_log) :
        /\ wait_log[k].nwritten >= 1
        /\ port_log[wait_log[k].nwritten].bytes = wait_log[k].data \o tx_eol

\* C12: the wait an entry asks for comes before the entry is written: the
\* timer runs for the entry's delay_ms with no write attempt made meanwhile,
\* and the first write attempt after the wait is that entry's.
C12_WaitThenWrite ==
    /\ \A k \in 1..Len(wait_log) :
          /\ wait_log[k].delay_ms > 0
          /\ Len(port_log) >= wait_log[k].nwritten
          /\ Len(port_log) > wait_log[k].nwritten =>
                port_log[wait_log[k].nwritten + 1].bytes = wait_log[k].data \o tx_eol
    /\ callback_timer > 0 =>
          /\ wait_log # <<>>
          /\ callback_timer = wait_log[Len(wait_log)].delay_ms
          /\ Len(port_log) = wait_log[Len(wait_log)].nwritten
    /\ \A i \in 1..Len(port_log) :
          send_log[i].delay_ms > 0 =>
              \E k \in 1..Len(wait_log) :
                  /\ wait_log[k].nwritten = i - 1
                  /\ wait_log[k].delay_ms = send_log[i].delay_ms

\* Two delayed entries with different payloads were waited for and written,
\* the second one sent while the first was waited for.
C12_Witness ==
    /\ Len(wait_log) = 2
    /\ Len(port_log) = 3
    /\ wait_log[1].data # wait_log[2].data
    /\ wait_log[1].nwritten = 0
    /\ wait_log[2].nwritten = 1
    /\ send_log[3].delay_ms = 0

(***************************************************************************)
(* Claims about the reader's framing                                       *)
(***************************************************************************)
Contains(s, p) == \E i \in 1..(Len(s) - Len(p) + 1) : SubSeq(s, i, i + Len(p) - 1) = p

RECURSIVE Join(_, _)
Join(lines, eol) ==
    IF lines = <<>> THEN <<>> ELSE Head(lines) \o eol \o Join(Tail(lines), eol)

\* C4: whatever the chunks, the lines dispatched so far, each followed by
\* rx_eol, and then the residual, spell the stream read so far; no line and
\* no residual holds an rx_eol: the lines are the rx_eol-delimited segments
\* in stream order, each once, and the trailing partial line is held back.
C4_LinesAreSegments ==
    /\ Join(dispatched, rx_eol) \o residual = Flatten(chunks)
    /\ \A i \in DOMAIN dispatched : ~Contains(dispatched[i], rx_eol)
    /\ ~Contains(residual, rx_eol)

\* An rx_eol split across two chunks ended a line, and a partial line waits.
C4_Witness ==
    /\ rx_eol = CRLF
    /\ Len(chunks) = 2
    /\ chunks[1] = <<"a", CR>>
    /\ Head(chunks[2]) = LF
    /\ dispatched = <<(<<"a">>)>>
    /\ residual = <<"a">>

(***************************************************************************)
(* Claims about the RFID and mass records                                  *)
(***************************************************************************)
\* C6: a mass is attributed to tag T exactly when the most recent detection
\* at the paired reader has tag T and is at most rfid_effective_time_s older
\* than the mass; otherwise it carries no tag.
C6_LockedToMostRecentTag ==
    \A k \in DOMAIN mass_result :
            LET d == mass_result[k].latest IN
            mass_result[k].rfid =
                IF d.rfid # None /\ mass_result[k].at - d.timestamp <= rfid_effective_time_s
                THEN d.rfid ELSE None

\* The rows of (reader, tag) last detected within rfid_effective_time_s
\* before ts.
RowsWithin(reader, tag, ts) ==
    {i \in DOMAIN rfid_event :
        /\ rfid_event[i].reader_id = reader
        /\ rfid_event[i].rfid = tag
        /\ rfid_event[i].last_detected_at <= ts
        /\ ts - rfid_event[i].last_detected_at <= rfid_effective_time_s}

\* C21: recording a detection of (reader, tag) at ts merges it into a row of
\* the same reader and tag last detected within rfid_effective_time_s before
\* ts (n_events + 1, last_detected_at = ts, first_detected_at kept, no row
\* added); otherwise it adds exactly one row with n_events = 1 and
\* first_detected_at = last_detected_at = ts.  Every other row is untouched.
C21_MergeOrCreate ==
    [][rfid_event' # rfid_event =>
        \E reader \in Readers, tag \in Tags :
            LET ts == now
                within == RowsWithin(reader, tag, ts)
            IN  /\ last_detection'[reader] = [rfid |-> tag, timestamp |-> ts]
                /\ IF within # {}
                   THEN /\ Len(rfid_event') = Len(rfid_event)
                        /\ \E i \in within :
                              /\ rfid_event'[i] =
                                    [rfid_event[i] EXCEPT !.n_events = @ + 1,
                                                          !.last_detected_at = ts]
                              /\ rfid_event'[i].first_detected_at =
                                    rfid_event[i].first_detected_at
                              /\ \A j \in DOMAIN rfid_event \ {i} :
                                    rfid_event'[j] = rfid_event[j]
                   ELSE /\ Len(rfid_event') = Len(rfid_event) + 1
                        /\ rfid_event'[Len(rfid_event')] =
                              [reader_id |-> reader, rfid |-> tag,
                               first_detected_at |-> ts,
                               last_detected_at |-> ts, n_events |-> 1]
                        /\ \A j \in DOMAIN rfid_event :
                              rfid_event'[j] = rfid_event[j]
    ]_vars

\* A detection merged into its row one second on, and the same reader and
\* tag recorded afresh once the window had passed.
C21_Witness ==
    /\ Len(rfid_event) = 2
    /\ rfid_event[1] = [reader_id |-> "R1", rfid |-> "T1",
                        first_detected_at |-> 0, last_detected_at |-> 1,
                        n_events |-> 2]
    /\ rfid_event[2] = [reader_id |-> "R1", rfid |-> "T1",
                        first_detected_at |-> 3, last_detected_at |-> 3,
                        n_events |-> 1]

(***************************************************************************)
(* Claims about the Whisker task                                           *)
(***************************************************************************)
\* C22: a mass event is stored, and broadcast as a MASS_EVENT line, only if
\* it is locked and carries a tag; an event that is not locked changes
\* neither the rows of mass_event nor the relay output.
C22_OnlyLockedTaggedRecorded ==
    [][Len(mass_in') = Len(mass_in) + 1 =>
        LET e == mass_in'[Len(mass_in')] IN
        /\ (mass_event' # mass_event \/ relay' # relay) =>
              /\ e.locked /\ e.rfid # None
              /\ Len(mass_event') = Len(mass_event) + 1
              /\ mass_event'[Len(mass_event')].rfid = e.rfid
              /\ mass_event'[Len(mass_event')].at = e.timestamp
              /\ relay' # relay =>
                    /\ Len(relay') = Len(relay) + 1
                    /\ relay'[Len(relay')].kind = "MASS_EVENT"
                    /\ relay'[Len(relay')].rfid = e.rfid
        /\ ~e.locked => mass_event' = mass_event /\ relay' = relay
    ]_vars

\* A stable mass without a tag left no trace; the locked mass that followed
\* was stored and relayed.
C22_Witness ==
    /\ Len(mass_in) = 2
    /\ ~mass_in[1].locked /\ mass_in[1].stable
    /\ mass_in[2].locked /\ mass_in[2].rfid = "T1"
    /\ Len(mass_event) = 1 /\ mass_event[1].rfid = "T1"
    /\ Len(relay) = 1 /\ relay[1].kind = "MASS_EVENT"

(***************************************************************************)
(* Claims about the RFID controller and the Z-tag decoder                  *)
(***************************************************************************)
\* Entry k of the history is the sending of command, the receipt of a Hello
\* line, the receipt of data.
IsSent(h, k, command) == h[k].kind = "send" /\ h[k].data = command
IsHello(h, k) == h[k].kind = "receive" /\ HELLO_REGEX_match(h[k].data)
IsReceived(h, k, data) == h[k].kind = "receive" /\ h[k].data = data

\* C23: once a reset has begun (LF sent), 'c' is not sent until 'x' has been
\* sent and, after it, a Hello line received, whatever the reader sends and
\* whenever its lines arrive.
C23_NoReadBeforeHello ==
    \A k \in DOMAIN trace :
        IsSent(trace, k, CMD_READING_CONTINUES) =>
            \A r \in 1..(k - 1) :
                (/\ IsSent(trace, r, CMD_NO_OP_CANCEL)
                 /\ \A r2 \in (r + 1)..(k - 1) : ~IsSent(trace, r2, CMD_NO_OP_CANCEL))
                => \E x \in (r + 1)..(k - 1), h \in (r + 1)..(k - 1) :
                      /\ x < h
                      /\ IsSent(trace, x, CMD_RESET_1)
                      /\ IsHello(trace, h)

\* No ReadStopped line has been received since the last reset began.
NoStopSinceReset(h) ==
    \A k \in DOMAIN h :
        IsReceived(h, k, RESPONSE_CONTINUOUS_READ_STOPPED) =>
            \E r \in (k + 1)..Len(h) : IsSent(h, r, CMD_NO_OP_CANCEL)

\* The step is the handling of one more line, data.
Receives(data) ==
    /\ Len(trace') > Len(trace)
    /\ SubSeq(trace', 1, Len(trace)) = trace
    /\ trace'[Len(trace) + 1] = Received(data)

\* C24: the first ReadStopped line received after each reset is swallowed
\* (the flag is cleared and nothing is sent), and a ReadStopped line received
\* while the flag is clear makes the controller send exactly one 'c'.
C24_FirstStopAfterResetSwallowed ==
    [][Receives(RESPONSE_CONTINUOUS_READ_STOPPED) =>
        /\ NoStopSinceReset(trace) =>
              /\ trace' = Append(trace, Received(RESPONSE_CONTINUOUS_READ_STOPPED))
              /\ ~swallow_next_stopped_read'
        /\ (~NoStopSinceReset(trace) /\ ~swallow_next_stopped_read) =>
              /\ trace' = trace \o <<Received(RESPONSE_CONTINUOUS_READ_STOPPED),
                                     Sent(CMD_READING_CONTINUES)>>
              /\ ~swallow_next_stopped_read'
    ]_vars

\* A line that is no Z-tag by its length, its prefix or its hex digits.
FailsValidation(data) ==
    \/ Len(data) # 17
    \/ data[1] # "Z"
    \/ \E i \in 2..17 : ~IsHex(data[i])

\* C27: a line that is no recognised ack and no Hello and fails the Z-tag
\* validation is logged as an error; nothing is emitted, nothing is sent and
\* the controller is left as it was, ready for the next line.
C27_BadLineLoggedAsUnknown ==
    [][\A data \in ReaderLines :
          (/\ Receives(data)
           /\ data \notin {RESPONSE_COMMAND_INVALID, RESPONSE_COMMAND_NOT_EXECUTED,
                           RESPONSE_CONTINUOUS_READ_STOPPED, RESPONSE_ANTENNA_OFF}
           /\ ~HELLO_REGEX_match(data)
           /\ FailsValidation(data))
          => /\ trace' = trace \o <<Received(data), Logged(data)>>
             /\ UNCHANGED <<swallow_next_stopped_read, reset_timer>>
    ]_vars

\* C25: the Z-tag built from a country code below 2^10 and a national id
\* below 2^38, each bit-reversed into its field, decodes to
\* country * 10^12 + national_id.
C25_DecodesToCountryAndId ==
    \A t \in Transponders :
        (ztag = t.ztag /\ decoded.kind # "pending") =>
            decoded = [kind |-> "value",
                       value |-> TagNumber(t.country, t.national_id)]

\* The largest transponder, 1023 and 2^38 - 1, decoded: 1023274877906943.
C25_Witness ==
    /\ ztag = ZtagOf(1023, <<906943, 274877>>, 0, 1)
    /\ decoded = [kind |-> "value", value |-> <<906943, 274877, 1023>>]

\* C26 as the specification words it: the line Z5A2080A70C2C0001 decodes to
\* 826000000001060.
C26_ExampleIs826000000001060 ==
    (ztag = ExampleZtag /\ decoded.kind # "pending") =>
        decoded = [kind |-> "value", value |-> <<1060, 0, 826>>]

\* C26, amended: the line Z5A2080A70C2C0001 decodes to 208210000479322
\* (country 208, national id 210000479322).
C26_ExampleIs208210000479322 ==
    (ztag = ExampleZtag /\ decoded.kind # "pending") =>
        decoded = [kind |-> "value", value |-> <<479322, 210000, 208>>]

\* The example line has been decoded.
C26_Witness == ztag = ExampleZtag /\ decoded.kind = "value"

(***************************************************************************)
(* Claims about the balance controller                                     *)
(***************************************************************************)
\* The last n entries of a history.
LastN(h, n) == SubSeq(h, Len(h) - n + 1, Len(h))

\* C7 as the specification words it: a stable mass is reported only when the
\* last stability_n masses are all at least min_mass_kg and their range is at
\* most tolerance_kg.
C7_StableOnlyIfAllAboveMin ==
    mass_received =>
        /\ Len(masses) >= stability_n
        /\ \A m \in Range(LastN(masses, stability_n)) : ~LtQ(m, FromInt(min_mass_kg))
        /\ \A a, c \in Range(LastN(masses, stability_n)) :
               ~LtQ(FromInt(tolerance_kg), SubQ(a, c))

\* C7: a stable mass is reported only when stability_n masses have been
\* judged since the reset, the latest of them is at least min_mass_kg, and
\* the range of the last stability_n is at most tolerance_kg.
C7_StableOnlyIfLatestAboveMin ==
    mass_received =>
        /\ Len(masses) >= stability_n
        /\ ~LtQ(masses[Len(masses)], FromInt(min_mass_kg))
        /\ \A a, c \in Range(LastN(masses, stability_n)) :
               ~LtQ(FromInt(tolerance_kg), SubQ(a, c))

\* A stable mass was reported over a full window of three masses.
C7_Witness ==
    /\ mass_received
    /\ stability_n = 3
    /\ Len(recent_measurements_kg) = 3

\* C13: a mass below unlock_mass_kg clears the window, so that a stable mass
\* is reported only when the last stability_n masses judged hold none below
\* unlock_mass_kg.
C13_NoStableWithinNOfUnlock ==
    mass_received =>
        /\ Len(masses) >= stability_n
        /\ \A m \in Range(LastN(masses, stability_n)) : ~LtQ(m, unlock_mass_kg)

\* The message start_measuring sends.
MeasureMsg ==
    [command |-> CMD_QUERY_MEASURE,
     params |-> <<measurements_per_batch(measurement_rate_hz)>>,
     msg |-> CMD_QUERY_MEASURE \o ToString(measurements_per_batch(measurement_rate_hz)),
     reply_expected |-> TRUE]

C15_RfidExtendsAndStartsIfIdle ==
    [][last_rfid'.n = last_rfid.n + 1 =>
          /\ read_until' = last_rfid'.timestamp + rfid_effective_time_s
          /\ IF n_pending_measurements = 0
             THEN /\ sent' = Append(sent, MeasureMsg)
                  /\ n_pending_measurements' =
                         measurements_per_batch(measurement_rate_hz)
             ELSE /\ sent' = sent
                  /\ n_pending_measurements' = n_pending_measurements
      ]_vars

\* A line reached on_receive in this step.
LineReceived == nlines' = nlines + 1 \/ nnoise' = nnoise + 1

\* The measurement replies awaited.
CountMeasure(q) == Cardinality({i \in DOMAIN q : q[i] = CMD_QUERY_MEASURE})

C17_LineOnEmptyQueueDropped ==
    [][(LineReceived /\ command_queue = <<>>) =>
          /\ UNCHANGED <<command_queue, n_pending_measurements, zero_value,
                         refload_value, pending_tare, pending_calibrate,
                         recent_measurements_kg, sent>>
          /\ ~mass_received'
          /\ calibrated' = <<>>
      ]_vars

\* A value arrived that no command asked for, with the queue empty and a
\* tare waiting for its value.
C17_Witness ==
    /\ last_rx.taken_for = "None"
    /\ last_rx.elicited_by = "None"
    /\ last_rx.data = "2"
    /\ pending_tare
    /\ phase = 3
    /\ command_queue = <<>>

\* A measured value reached on_receive in this step: a line that parses as
\* a number, taken for a measurement entry.
ValueReceived ==
    /\ LineReceived
    /\ TakenFor(command_queue) = CMD_QUERY_MEASURE
    /\ int(last_rx'.data) # {}

\* C18: a tare that consumes the value v while both calibration points are
\* set leaves zero_value = v and refload_value = the old refload_value +
\* (v - the old zero_value), so that refload_value - zero_value is unchanged.
C18_TareShiftsBothPoints ==
    [][(ValueReceived /\ pending_tare /\ zero_value # NoValue
           /\ refload_value # NoValue) =>
          /\ zero_value' = Some(Get(int(last_rx'.data)))
          /\ refload_value' =
                Some(Get(refload_value) + (Get(int(last_rx'.data)) - Get(zero_value)))
          /\ Get(refload_value') - Get(zero_value') =
                Get(refload_value) - Get(zero_value)
      ]_vars

\* A tare has consumed the value 2 with the points at 0 and 2: they are at 2
\* and 4.
C18_Witness ==
    /\ zero_value = Some(2)
    /\ refload_value = Some(4)
    /\ calibrated = <<[zero_value |-> Some(2), refload_value |-> Some(4)]>>
    /\ ~pending_tare

\* C19 as stated: an armed tare or calibrate that consumes a measured value
\* emits exactly one CalibrationReport, with the resulting points, whatever
\* the value.
C19_AlwaysOneReport ==
    [][(ValueReceived /\ (pending_tare \/ pending_calibrate)) =>
          calibrated' = <<[zero_value |-> zero_value',
                           refload_value |-> refload_value']>>
      ]_vars

\* C19: an armed tare or calibrate that consumes a measured value emits
\* exactly one CalibrationReport, with the resulting points, unless the
\* value equals the point it would set (zero_value for the tare,
\* refload_value for the calibrate): then the points stay and nothing is
\* emitted.
C19_OneReportUnlessNoChange ==
    [][(ValueReceived /\ (pending_tare \/ pending_calibrate)) =>
          IF Some(Get(int(last_rx'.data))) =
                (IF pending_tare THEN zero_value ELSE refload_value)
          THEN /\ calibrated' = <<>>
               /\ UNCHANGED <<zero_value, refload_value>>
          ELSE calibrated' = <<[zero_value |-> zero_value',
                                refload_value |-> refload_value']>>
      ]_vars

\* A calibrate has consumed the value 0 with zero_value at 0: the report
\* carries zero_value 0 and no refload_value.
C19_Witness ==
    /\ calibrated = <<[zero_value |-> Some(0), refload_value |-> NoValue]>>
    /\ zero_value = Some(0)
    /\ refload_value = NoValue
    /\ ~pending_calibrate

\* C20: with tare and calibrate both pending, a measured value is consumed
\* by the tare alone (zero_value becomes the value, the scale
\* refload_value - zero_value is kept) and the calibrate stays pending; with
\* the calibrate alone pending, the calibrate consumes the value.
C20_TareBeforeCalibrate ==
    [][(ValueReceived /\ pending_calibrate) =>
          IF pending_tare
          THEN /\ ~pending_tare'
               /\ pending_calibrate'
               /\ zero_value' = Some(Get(int(last_rx'.data)))
               /\ (zero_value # NoValue /\ refload_value # NoValue) =>
                      /\ refload_value' # NoValue
                      /\ Get(refload_value') - Get(zero_value') =
                            Get(refload_value) - Get(zero_value)
          ELSE /\ ~pending_calibrate'
               /\ zero_value' = zero_value
               /\ refload_value' =
                      IF Some(Get(int(last_rx'.data))) = zero_value
                      THEN NoValue ELSE Some(Get(int(last_rx'.data)))
      ]_vars

\* The tare has just consumed a value and reported, the calibrate requested
\* with it still waiting for the next one.
C20_Witness ==
    /\ calibrated # <<>>
    /\ pending_calibrate
    /\ ~pending_tare
    /\ last_rx.taken_for = CMD_QUERY_MEASURE
    /\ zero_value = Some(Get(int(last_rx.data)))

\* C8: with a balance that answers every command expecting a reply with one
\* line (MSV?n with n lines), in the order of the commands, every line is
\* taken for the command that elicited it, and the commands awaited are those
\* of the lines still to come, in their order: the lines of a batch come
\* before the reply to any command sent after its MSV?.
C8_RepliesMatchCommands ==
    /\ last_rx.taken_for = last_rx.elicited_by
    /\ command_queue =
          [i \in 1..(Len(Schedule(sent, 1)) - nlines) |->
              sent[Schedule(sent, 1)[nlines + i]].command]

\* The reply to a ping sent during the first batch was taken, after the
\* lines of that batch, for the ping's status query.
C8_Witness ==
    /\ phase = 3
    /\ nlines = 12
    /\ sent[13].command = CMD_QUERY_IDENTIFICATION
    /\ last_rx.elicited_by = CMD_QUERY_STATUS
    /\ last_rx.taken_for = CMD_QUERY_STATUS

\* The bytes the writer puts on the port for the messages msgs, in order.
RECURSIVE Written(_, _)
Written(msgs, log) ==
    IF msgs = <<>> THEN log
    ELSE Written(Tail(msgs), _send(log, Head(msgs).msg, TRUE))

RECURSIVE Bytes_of(_)
Bytes_of(log) == IF log = <<>> THEN "" ELSE Head(log).bytes \o Bytes_of(Tail(log))

Stream(msgs) == Bytes_of(Written(msgs, <<>>))

\* The start that C9 is about: 9600 baud, even parity, 3 Hz, and no ping,
\* tare or calibration asked for so far.
C9_Case ==
    /\ serial_args.baudrate = 9600
    /\ serial_args.parity = PARITY_EVEN
    /\ measurement_rate_hz = 3
    /\ ~requested

\* The outbound stream of the reset, phase by phase, ending with the batch
\* request last.
ResetStream(last) ==
    /\ phase = 0 => Stream(sent) = ""
    /\ phase = 1 => Stream(sent) = ";STP;RES;" /\ reset_timer_1 = 3000
    /\ phase = 2 => /\ Stream(sent) = ";STP;RES;BDR9600,1;"
                    /\ reset_timer_1 = 0
                    /\ reset_timer_2 = 200
    /\ phase = 3 => /\ Len(sent) >= 12
                    /\ Stream(SubSeq(sent, 1, 12)) =
                         ";STP;RES;BDR9600,1;BDR?;IDN?;ESR?;COF3;TEX172;NOV?;ICR5;" \o last
                    /\ reset_timer_1 = 0
                    /\ reset_timer_2 = 0

\* C9 as the specification words it: the stream is ;STP;RES; until the
\* 3000 ms timer fires, then BDR9600,1; until the 200 ms timer fires, then
\* BDR?;IDN?;ESR?;COF3;TEX172;NOV?;ICR5;MSV?3;
C9_ResetStreamEndsWithMSV3 == C9_Case => ResetStream("MSV?3;")

\* C9: the same stream, ending with MSV?2; (the batch at 3 Hz is
\* ceil(3 / 2) = 2), when no ping, tare or calibration is asked for before
\* the sequence is complete.
C9_ResetStreamEndsWithMSV2 == C9_Case => ResetStream("MSV?2;")

\* The three phases of such a start have been sent.
C9_Witness == C9_Case /\ phase = 3 /\ Len(sent) = 12

\* The code of the device rate that serves rate_hz: the slowest rate of the
\* map that is at least rate_hz.
CodeOfNextSupportedRate(rate_hz) ==
    LET enough == {d \in DOMAIN RATE_MAP_HZ_TO_CODE : d >= rate_hz}
        next == CHOOSE d \in enough : \A e \in enough : d <= e
    IN RATE_MAP_HZ_TO_CODE[next]

\* C28: at every rate that can be configured (1, 2, 3, 6, 10 Hz) the reset
\* sequence sends ICR with the numeric code of the map
\* 1,2,3,6,12,25,50,100 Hz -> 7,6,5,4,3,2,1,0; 10 Hz is sent as the code of
\* the next supported rate, 12 Hz.
C28_IcrCarriesRateCode ==
    phase = 3 =>
        /\ sent[11].command = CMD_MEASUREMENT_RATE
        /\ sent[11].params = <<CodeOfNextSupportedRate(measurement_rate_hz)>>
        /\ sent[11].msg = CMD_MEASUREMENT_RATE
                            \o ToString(CodeOfNextSupportedRate(measurement_rate_hz))

\* max(1, ceil(rate_hz / 2))
BatchOf(rate_hz) ==
    LET half == (rate_hz \div 2) + (rate_hz % 2) IN
    IF half > 1 THEN half ELSE 1

\* C29: every start of a measurement cycle (in the reset sequence, at the end
\* of a batch, on a tare) sends exactly one MSV?<batch> with
\* batch = max(1, ceil(rate_hz / 2)) and adds exactly batch measurement
\* replies to those the command queue awaits.
C29_StartSendsOneBatch ==
    [][LET new == SubSeq(sent', Len(sent) + 1, Len(sent'))
           starts == {i \in DOMAIN new : new[i].command = CMD_QUERY_MEASURE}
           batch == BatchOf(measurement_rate_hz)
           popped == IF nlines' = nlines + 1 /\ command_queue # <<>>
                        /\ Head(command_queue) = CMD_QUERY_MEASURE
                     THEN 1 ELSE 0
       IN  /\ SubSeq(sent', 1, Len(sent)) = sent
           /\ Cardinality(starts) <= 1
           /\ \A i \in starts :
                  /\ new[i].params = <<batch>>
                  /\ new[i].msg = CMD_QUERY_MEASURE \o ToString(batch)
                  /\ new[i].reply_expected
           /\ CountMeasure(command_queue') =
                  CountMeasure(command_queue) - popped + batch * Cardinality(starts)
      ]_vars

\* At 10 Hz the eight replies of the reset and the five of the first batch
\* have come and the second batch has been asked for.
C29_Witness ==
    /\ measurement_rate_hz = 10
    /\ phase = 3
    /\ nlines = 13
    /\ Len(sent) = 13
    /\ sent[12].msg = "MSV?5"
    /\ sent[13].msg = "MSV?5"
    /\ command_queue = Repeat(CMD_QUERY_MEASURE, 5)

(***************************************************************************)
(* Claims about the window and its links                                   *)
(***************************************************************************)
\* C11: if a link fails to open its port during the start, stop() has been
\* requested on every other link and the error has been reported upstream.
C11_OpenFailureStopsOthers ==
    \A l \in open_failed :
        /\ l \in status_shown
        /\ \A m \in Links \ {l} : m \in stop_called

\* C30: "All tasks and threads stopped" is shown, and the application quits
\* when an exit is pending, only with every RFID link, every balance link
\* and the Whisker owner Stopped.
C30_ReportOnlyWhenAllStopped ==
    /\ last_report.shown =>
          /\ \A l \in Links : last_report.owners[l] = "stopped"
          /\ last_report.whisker = "stopped"
    /\ last_report.quit =>
          /\ last_report.shown /\ exit_pending
          /\ \A l \in Links : owner_state[l] = "stopped"
          /\ whisker_owner_state = "stopped"

\* The window was closed with everything running; the links and the Whisker
\* owner have finished and the application has quit.
C30_Witness ==
    /\ exit_pending
    /\ last_report.shown /\ last_report.quit
    /\ open_failed = {}
    /\ ~anything_running

(***************************************************************************)
(* Further claims about the serial link                                    *)
(***************************************************************************)
\* C31: start() called in any state other than stopped, and stop() called
\* in stopped, are rejected: the state is unchanged, the port is neither
\* opened nor closed, no thread is started and none is asked to stop.
C31_RejectedCallsChangeNothing ==
    [][((nstart' # nstart /\ state # "stopped")
        \/ (nstop' # nstop /\ state = "stopped"))
       => /\ state' = state
          /\ serial_port' = serial_port
          /\ thread' = thread
          /\ quitreq' = quitreq
          /\ objq' = objq
          /\ mainq' = mainq
          /\ finish_requested' = finish_requested
          /\ transitions' = transitions
          /\ nfinished' = nfinished
          /\ startup' = startup]_vars

\* Both rejections have happened, the start one while the link was busy.
C31_Witness ==
    /\ "cannot_start" \in errlog
    /\ "cannot_stop" \in errlog
    /\ state = "stopped"
    /\ nfinished > 0

\* C34: within a link the writer is started before the reader, and the
\* controller's on_start runs, and the state becomes Running, only after
\* the writer has reported started and the reader has been asked to start.
\* (startup only grows between two accepted start() calls, so a step that
\* is in it without its predecessors was taken before them.)
C34_WriterThenReaderThenController ==
    /\ "readerthread.start" \in startup => "writerthread.start" \in startup
    /\ ("running" \in startup \/ "on_start" \in startup \/ state = "running")
          => {"writer.started", "reader_start_requested"} \subseteq startup

\* A second start() has gone all the way to on_start.
C34_Witness ==
    /\ nstart = 2
    /\ nfinished = 1
    /\ state = "running"
    /\ startup = {"writerthread.start", "writer.started", "readerthread.start",
                  "reader_start_requested", "controllerthread.start",
                  "running", "on_start"}

\* C36: for each stop the link closes its port, enters Stopped and emits
\* finished exactly once, in whatever order the finished notifications of
\* the reader, writer and controller threads are delivered: the all-finished
\* check of a notification never emits finished (nor closes the port and
\* sets Stopped) in a link that is Stopped already.
C36_FinishedOncePerStop ==
    [][(nfinished' # nfinished /\ nstart' = nstart /\ nstop' = nstop)
          => state # "stopped"]_vars

\* C37: a reader stop request is never lost: if the stop flag is set (by
\* the direct call from the GUI thread) while the reader's start call is
\* still queued, the loop that call enters ends and the reader emits
\* finished (the reader is out of its loop with no start call left).
C37_StopBeforeLoopIsKept ==
    (finish_requested /\ ~reader_in_loop /\ objq["reader"] # <<>>)
        ~> (~reader_in_loop /\ objq["reader"] = <<>>)

(***************************************************************************)
(* Further claims about the writer                                         *)
(***************************************************************************)
\* C38: while the writer runs and its timer fires, every entry passed to
\* send() is attempted on the port exactly once: there are never more
\* attempts than entries, and the n-th entry passed to send() becomes, and
\* remains, the n-th attempt, whether it was put back at the head for a
\* wait, arrived during a wait or follows a write that failed.
C38_EveryEntryAttemptedOnce ==
    /\ [](Len(port_log) <= Len(send_log))
    /\ \A n \in 1..MaxSend :
          (Len(send_log) >= n)
              ~> [](/\ Len(port_log) >= n
                    /\ port_log[n].bytes = send_log[n].data \o tx_eol)

\* A write has failed, the next entry has been put back at the head with
\* zero delay for its wait, and a further send() has arrived during the
\* wait.
C38_Witness ==
    /\ busy
    /\ callback_timer > 0
    /\ Len(port_log) = 1
    /\ ~port_log[1].ok
    /\ Len(queue) = 2
    /\ queue[1] = [data |-> send_log[2].data, delay_ms |-> 0]
    /\ send_log[2].delay_ms > 0
    /\ queue[2] = send_log[3]

(***************************************************************************)
(* Further claims about the records                                        *)
(***************************************************************************)
\* The time of the latest detection recorded.
LatestDetection ==
    CHOOSE ts \in {rfid_event[i].last_detected_at : i \in DOMAIN rfid_event} :
        \A j \in DOMAIN rfid_event : rfid_event[j].last_detected_at <= ts

\* C39: for detections recorded with non-decreasing timestamps, at most one
\* row per (reader, tag) is ongoing at any time (last detected within
\* rfid_effective_time_s of the latest detection), and the sum of n_events
\* over all rows is the number of detections recorded: it starts at 0 and
\* every detection recorded adds exactly one.
C39_OneOngoingRowPerReaderAndTag ==
    /\ [](rfid_event # <<>> =>
            \A reader \in Readers, tag \in Tags :
                Cardinality(RowsWithin(reader, tag, LatestDetection)) <= 1)
    /\ SumEvents(rfid_event) = 0
    /\ [][last_detection' # last_detection \/ rfid_event' # rfid_event
            => SumEvents(rfid_event') = SumEvents(rfid_event) + 1]_vars

\* A tag seen again at its reader after the window had passed, and then once
\* more at the very end of the new window: two rows, the second one ongoing.
C39_Witness ==
    /\ rfid_effective_time_s = 1
    /\ Len(rfid_event) = 2
    /\ rfid_event[1] = [reader_id |-> "R1", rfid |-> "T1",
                        first_detected_at |-> 0, last_detected_at |-> 0,
                        n_events |-> 1]
    /\ rfid_event[2] = [reader_id |-> "R1", rfid |-> "T1",
                        first_detected_at |-> 2, last_detected_at |-> 3,
                        n_events |-> 2]

(***************************************************************************)
(* Claims about the Whisker main socket                                    *)
(***************************************************************************)
\* The complete lines among the characters read so far.
CompleteLines ==
    LET fragments == split(SubSeq(Terminated(server_lines), 1, socket_pos), EOL, <<>>)
    IN SubSeq(fragments, 1, Len(fragments) - 1)

IsNoPing(line) == line # PING

\* C40: every complete line received on the main socket other than a Ping
\* is forwarded to the controller exactly once and in arrival order, the
\* lines that arrive in the same read after a Ping line included.
C40_EveryOtherLineForwarded ==
    forwarded = SelectSeq(CompleteLines, IsNoPing)

(***************************************************************************)
(* Further claims about the balance controller                             *)
(***************************************************************************)
\* C32: from a configuration whose refload_value differs from its
\* zero_value (or where either is unset), whatever tare and calibrate
\* operations follow and whatever the balance measures, refload_value and
\* zero_value differ whenever both are set: value_to_mass never divides by
\* zero.
C32_CalibrationPointsDiffer ==
    (zero_value # NoValue /\ refload_value # NoValue)
        => Get(refload_value) - Get(zero_value) # 0

\* A tare or a calibration has just been carried out with the reading that
\* would have made the two points equal: the reference point is unset.
C32_Witness ==
    /\ Len(calibrated) = 1
    /\ calibrated[1].refload_value = NoValue
    /\ zero_value # NoValue
    /\ last_rx.taken_for = CMD_QUERY_MEASURE
    /\ Some(Get(int(last_rx.data))) = zero_value
    /\ requested

\* C33: no measurement command (MSV?) is sent between the start of the
\* reset sequence and the sending of its ICR command, whatever tare and
\* calibrate requests and RFID detections arrive while the reset timers
\* run: every MSV? sent has the ICR of reset_3 before it.
C33_NoMeasureBeforeIcr ==
    \A i \in DOMAIN sent :
        sent[i].command = CMD_QUERY_MEASURE
            => \E j \in 1..(i - 1) : sent[j].command = CMD_MEASUREMENT_RATE

\* C35: in every state n_pending_measurements is the number of measurement
\* entries (MSV?) in the command queue, and is never negative, for any
\* sequence of batch starts, received lines (valid or not), pings, tare and
\* calibrate requests and stop_measuring.
C35_PendingCountsMeasureEntries ==
    /\ n_pending_measurements >= 0
    /\ n_pending_measurements = Len(command_queue) - Len(WithoutMeasure(command_queue))

\* Measuring was stopped after the reset sequence, a line that answers no
\* command has come, and a batch is pending again behind other entries.
C35_Witness ==
    /\ \E i \in DOMAIN sent :
          /\ i > 12
          /\ sent[i].command = CMD_STOP_MEASURING
          /\ i < Len(sent)
          /\ sent[Len(sent)].command = CMD_QUERY_MEASURE
    /\ nnoise > 0
    /\ n_pending_measurements > 0
    /\ Head(command_queue) # CMD_QUERY_MEASURE

====
